---- MODULE Spec2Model ----
(***************************************************************************)
(* A model of the openaiclient conversation state machine                  *)
(* (src/src/openaiapi/mod.rs), of the streamed-response reconstruction it   *)
(* uses, and of the command line driver (src/src/main.rs) that runs it.    *)
(*                                                                         *)
(* Option<T> is a sequence of length 0 (None) or 1 (Some(x)); a Rust       *)
(* String is a TLA+ string, push_str is \o.                                *)
(***************************************************************************)
EXTENDS Integers, Sequences, FiniteSets, TLC

VARIABLES
    loaded,      \* ChatContext.chat is Some(..)
    messages,    \* ChatContext.chat.messages (<<>> while no chat is loaded)
    chat_stream, \* ChatContext.chat.stream
    dirty,       \* ChatContext.dirty
    last,        \* the last operation called on the ChatContext and what it returned
    sBody,       \* parse_streaming_response: the lines of accumulated_message
    sPos,        \* parse_streaming_response: lines consumed so far
    sAcc,        \* parse_streaming_response: the accumulators of the loop
    sResult,     \* parse_streaming_response: what it returned (None while running)
    cli,         \* main: where the run is, its arguments, add_tool_res, how it ended
    store,       \* the chat file of the chat id in chats_dir (None when there is none)
    now,         \* Instant::now(), in seconds
    output_buf,  \* run_and_capture_with_timeout: output_buf
    pushes,      \* the entries push_bounded has stored, oldest first (kept for the
                 \* commands that write a bounded number of lines)
    feed,        \* what the two streams deliver to the drain loop, and whether a push panicked
    exec,        \* Executor::execute: where the call is, the child, the pipes, the result
    calls        \* Dispatcher::dispatch: the calls made, each with what it did and returned

vars == <<loaded, messages, chat_stream, dirty, last, sBody, sPos, sAcc, sResult, cli, store,
          now, output_buf, pushes, feed, exec, calls>>
chatVars == <<loaded, messages, chat_stream, dirty, last>>
streamVars == <<sBody, sPos, sAcc, sResult>>
cliVars == <<cli, store>>
execVars == <<now, output_buf, pushes, feed, exec, calls>>

(***************************************************************************)
(* Bounds of the model.                                                    *)
(***************************************************************************)
\* longest message log explored
MaxMsgs == 4
\* longest streamed body explored, in lines
MaxLines == 4

(***************************************************************************)
(* Option                                                                  *)
(***************************************************************************)
None == <<>>
Some(x) == <<x>>
IsSome(o) == o # <<>>
Unwrap(o) == o[1]

Last(s) == s[Len(s)]

RECURSIVE SeqsUpTo(_, _)
\* the sequences over S of length at most n
SeqsUpTo(S, n) ==
    IF n = 0 THEN {<<>>}
    ELSE LET shorter == SeqsUpTo(S, n - 1)
         IN shorter \cup {Append(q, x) : q \in shorter, x \in S}

(***************************************************************************)
(* Data model: MessageContent, ToolCall, Message                           *)
(***************************************************************************)
Simple(text) == [kind |-> "Simple", text |-> text, parts |-> <<>>]
Multi(parts) == [kind |-> "Multi", text |-> "", parts |-> parts]

ToolCall(id, tool_type, name, arguments) ==
    [id |-> id, tool_type |-> tool_type,
     function |-> [name |-> name, arguments |-> arguments]]

Message(role, content, name, tool_call_id, tool_calls) ==
    [role |-> role, content |-> content, name |-> name,
     tool_call_id |-> tool_call_id, tool_calls |-> tool_calls]

\* Message::normal
Message_normal(role, content) ==
    Message(role, Some(content), None, None, None)

\* a variant that forgets the id of the call it answers
Message_tool_response_without_id(role, name, tool_call_id, content) ==
    Message(role, Some(content), Some(name), None, None)

\* the Message literal built by add_tool_message
Message_tool_response(role, name, tool_call_id, content) ==
    Message(role, Some(content), Some(name), Some(tool_call_id), None)

(***************************************************************************)
(* Result<T, E>                                                            *)
(***************************************************************************)
Ok(v) == [ok |-> TRUE, val |-> Some(v), err |-> "None"]
Err(kind) == [ok |-> FALSE, val |-> None, err |-> kind]

(***************************************************************************)
(* get_last_pending_tool_call_id                                           *)
(***************************************************************************)
\* the ids of one message's tool calls, in order
ToolCallIdsOf(m) ==
    IF IsSome(m.tool_calls)
    THEN [i \in 1..Len(Unwrap(m.tool_calls)) |-> Unwrap(m.tool_calls)[i].id]
    ELSE <<>>

\* a variant in which an answer closes every open call
tool_call_ids_step_closing_all(ids, m) ==
    IF IsSome(m.tool_call_id) THEN <<>> ELSE ids \o ToolCallIdsOf(m)

\* a variant that collects the ids the messages answer
tool_call_ids_step_answered(ids, m) ==
    IF IsSome(m.tool_call_id) THEN Append(ids, Unwrap(m.tool_call_id)) ELSE ids

\* one iteration of the loop over the messages: push, then retain
tool_call_ids_step(ids, m) ==
    LET pushed == ids \o ToolCallIdsOf(m)
    IN IF IsSome(m.tool_call_id)
       THEN SelectSeq(pushed, LAMBDA s : s # Unwrap(m.tool_call_id))
       ELSE pushed

RECURSIVE tool_call_ids(_, _)
\* the vector tool_call_ids after the loop has walked msgs, starting from ids
tool_call_ids(ids, msgs) ==
    IF msgs = <<>> THEN ids
    ELSE tool_call_ids(tool_call_ids_step(ids, Head(msgs)), Tail(msgs))

\* a variant that answers with the newest open id: tool_call_ids.last()
get_last_pending_tool_call_id_newest(isLoaded, msgs) ==
    IF ~isLoaded THEN Err("ChatContainsNoMessages")
    ELSE LET ids == tool_call_ids(<<>>, msgs)
         IN IF ids # <<>> THEN Ok(Some(Last(ids))) ELSE Ok(None)

get_last_pending_tool_call_id(isLoaded, msgs) ==
    IF ~isLoaded THEN Err("ChatContainsNoMessages")
    ELSE LET ids == tool_call_ids(<<>>, msgs)
         IN IF ids # <<>> THEN Ok(Some(Head(ids))) ELSE Ok(None)

(***************************************************************************)
(* get_tool_call                                                           *)
(***************************************************************************)
\* every tool call of the log, in message order then call order
RECURSIVE AllToolCalls(_)
AllToolCalls(msgs) ==
    IF msgs = <<>> THEN <<>>
    ELSE (IF IsSome(Head(msgs).tool_calls) THEN Unwrap(Head(msgs).tool_calls) ELSE <<>>)
         \o AllToolCalls(Tail(msgs))

\* a variant that returns the newest call with the id
get_tool_call_newest(isLoaded, msgs, tool_call_id) ==
    IF ~isLoaded THEN Err("ChatContainsNoMessages")
    ELSE LET found == SelectSeq(AllToolCalls(msgs), LAMBDA tc : tc.id = tool_call_id)
         IN IF found # <<>> THEN Ok(Last(found)) ELSE Err("LastToolCallIdNotFound")

get_tool_call(isLoaded, msgs, tool_call_id) ==
    IF ~isLoaded THEN Err("ChatContainsNoMessages")
    ELSE LET found == SelectSeq(AllToolCalls(msgs), LAMBDA tc : tc.id = tool_call_id)
         IN IF found # <<>> THEN Ok(Head(found)) ELSE Err("LastToolCallIdNotFound")

(***************************************************************************)
(* get_last_message                                                        *)
(***************************************************************************)
get_last_message(isLoaded, msgs) ==
    IF ~isLoaded THEN Err("NoChatLoaded")
    ELSE IF msgs # <<>> THEN Ok(Last(msgs))
    ELSE Err("ChatContainsNoMessages")

(***************************************************************************)
(* The response body.  The same text is read two ways: line by line by     *)
(* parse_streaming_response (lines) and as one JSON document by            *)
(* parse_response (doc).  A line is described by what the code asks of it  *)
(* after trim(): whether it is empty, is "[DONE]", starts with "data: ",   *)
(* and what serde_json makes of the rest.                                  *)
(***************************************************************************)
\* a JSON value as the code reads it with as_str()
JStr(s) == [str |-> TRUE, s |-> s]
JNull == [str |-> FALSE, s |-> ""]
as_str(v) == IF v.str THEN Some(v.s) ELSE None

NoJson == [valid |-> FALSE, choice |-> None]

\* an empty (or all-blank) line
BlankLine == [kind |-> "blank", has_data |-> FALSE, has_done |-> FALSE, json |-> NoJson]
\* the bare terminator line "[DONE]"
DoneLine == [kind |-> "done", has_data |-> FALSE, has_done |-> TRUE, json |-> NoJson]
\* "data: [DONE]": a data line whose payload is not JSON
DataDoneLine == [kind |-> "data", has_data |-> TRUE, has_done |-> TRUE, json |-> NoJson]
\* "data: " followed by text that is not JSON
DataGarbageLine == [kind |-> "data", has_data |-> TRUE, has_done |-> FALSE, json |-> NoJson]
\* a line that does not start with "data: " (another field, or "data:" without the space)
OtherLine(has_data, has_done) ==
    [kind |-> "other", has_data |-> has_data, has_done |-> has_done, json |-> NoJson]
\* "data: {..}" with no "choices", or with an empty "choices" array
DataNoChoiceLine ==
    [kind |-> "data", has_data |-> TRUE, has_done |-> FALSE,
     json |-> [valid |-> TRUE, choice |-> None]]
\* "data: {"choices":[{"delta": delta, "finish_reason": finish_reason}, ..]}"
DataLine(delta, finish_reason) ==
    [kind |-> "data", has_data |-> TRUE, has_done |-> FALSE,
     json |-> [valid |-> TRUE,
               choice |-> Some([delta |-> delta, finish_reason |-> finish_reason])]]

\* delta objects: content is an Option of a JSON value, tool_calls an Option of an array
Delta(content, tool_calls) == [content |-> content, tool_calls |-> tool_calls]
\* one element of delta.tool_calls
ToolCallFragment(id, tool_type, function) ==
    [id |-> id, tool_type |-> tool_type, function |-> function]
FunctionFragment(name, arguments) == [name |-> name, arguments |-> arguments]

\* body.contains("data: ")
contains_data(body) == \E i \in 1..Len(body.lines) : body.lines[i].has_data
\* body.contains("[DONE]")
contains_done(body) == \E i \in 1..Len(body.lines) : body.lines[i].has_done

(***************************************************************************)
(* parse_streaming_response                                                *)
(***************************************************************************)
\* the accumulators declared before the loop
StreamAccInit ==
    [full_response |-> "", tool_calls |-> <<>>,
     tool_call_id |-> "", tool_call_type |-> "",
     tool_call_function_name |-> "", tool_call_function_arguments |-> ""]

\* a variant that puts each new fragment in front
push_content_in_front(acc, content_str) == [acc EXCEPT !.full_response = content_str \o @]

\* a variant that keeps only the newest fragment
push_arguments_overwriting(acc, arguments) ==
    [acc EXCEPT !.tool_call_function_arguments = arguments]

\* "full_response.push_str(content_str)"
push_content(acc, content_str) == [acc EXCEPT !.full_response = @ \o content_str]

\* "tool_call_function_arguments.push_str(&arguments.to_string())"
push_arguments(acc, arguments) ==
    [acc EXCEPT !.tool_call_function_arguments = @ \o arguments]

\* the body of "for tool_call_value in array"
merge_tool_call_value(acc, v) ==
    LET a1 == IF IsSome(v.id) THEN [acc EXCEPT !.tool_call_id = Unwrap(v.id)] ELSE acc
        a2 == IF IsSome(v.tool_type)
              THEN [a1 EXCEPT !.tool_call_type = Unwrap(v.tool_type)] ELSE a1
    IN IF IsSome(v.function)
       THEN LET f == Unwrap(v.function)
                a3 == IF IsSome(f.name)
                      THEN [a2 EXCEPT !.tool_call_function_name = Unwrap(f.name)] ELSE a2
            IN IF IsSome(f.arguments)
               THEN push_arguments(a3, Unwrap(f.arguments))
               ELSE a3
       ELSE a2

RECURSIVE merge_tool_calls_array(_, _)
merge_tool_calls_array(acc, array) ==
    IF array = <<>> THEN acc
    ELSE merge_tool_calls_array(merge_tool_call_value(acc, Head(array)), Tail(array))

\* "if let Some(delta) = first_choice.get("delta")": text, then tool calls
merge_delta(acc, delta) ==
    LET a1 == IF IsSome(delta.content) /\ IsSome(as_str(Unwrap(delta.content)))
              THEN push_content(acc, Unwrap(as_str(Unwrap(delta.content))))
              ELSE acc
    IN IF IsSome(delta.tool_calls)
       THEN merge_tool_calls_array(a1, Unwrap(delta.tool_calls))
       ELSE a1

\* "if finish_reason == "tool_calls"": push the tool call and reset the accumulators
finish_tool_call(acc) ==
    [acc EXCEPT
        !.tool_calls = Append(@, ToolCall(acc.tool_call_id, acc.tool_call_type,
                                          acc.tool_call_function_name,
                                          acc.tool_call_function_arguments)),
        !.tool_call_id = "", !.tool_call_type = "",
        !.tool_call_function_name = "", !.tool_call_function_arguments = ""]

\* a variant in which a data line that is not JSON starts the message afresh
parse_line_restarting(acc, line) ==
    IF line.kind # "data" THEN acc
    ELSE IF ~line.json.valid THEN StreamAccInit
    ELSE IF ~IsSome(line.json.choice) THEN acc
    ELSE LET first_choice == Unwrap(line.json.choice)
             a1 == IF IsSome(first_choice.delta)
                   THEN merge_delta(acc, Unwrap(first_choice.delta)) ELSE acc
         IN IF first_choice.finish_reason = Some("tool_calls")
            THEN finish_tool_call(a1) ELSE a1

\* one iteration of "for line in accumulated_message.lines()"
parse_line(acc, line) ==
    IF line.kind # "data" THEN acc
    ELSE IF ~line.json.valid THEN acc
    ELSE IF ~IsSome(line.json.choice) THEN acc
    ELSE LET first_choice == Unwrap(line.json.choice)
             a1 == IF IsSome(first_choice.delta)
                   THEN merge_delta(acc, Unwrap(first_choice.delta)) ELSE acc
         IN IF first_choice.finish_reason = Some("tool_calls")
            THEN finish_tool_call(a1) ELSE a1

\* a variant that also returns the tool call in progress when the loop ends
stream_result_flushing(acc) ==
    LET flushed == IF acc.tool_call_id # ""
                 THEN Append(acc.tool_calls,
                             ToolCall(acc.tool_call_id, acc.tool_call_type,
                                      acc.tool_call_function_name,
                                      acc.tool_call_function_arguments))
                 ELSE acc.tool_calls
    IN IF Len(flushed) > 1 THEN Err("Panic")
       ELSE Ok(Message("assistant",
                       IF Len(acc.full_response) > 0 THEN Some(Simple(acc.full_response))
                       ELSE None,
                       None, None,
                       IF flushed # <<>> THEN Some(flushed) ELSE None))

\* a variant without the panic: every finished tool call is returned
stream_result_keeping_all(acc) ==
    Ok(Message("assistant",
               IF Len(acc.full_response) > 0 THEN Some(Simple(acc.full_response)) ELSE None,
               None, None,
               IF acc.tool_calls # <<>> THEN Some(acc.tool_calls) ELSE None))

\* what follows the loop: the panic, or the assistant message
stream_result(acc) ==
    IF Len(acc.tool_calls) > 1 THEN Err("Panic")
    ELSE Ok(Message("assistant",
                    IF Len(acc.full_response) > 0 THEN Some(Simple(acc.full_response)) ELSE None,
                    None, None,
                    IF acc.tool_calls # <<>> THEN Some(acc.tool_calls) ELSE None))

RECURSIVE parse_lines(_, _)
parse_lines(acc, lines) ==
    IF lines = <<>> THEN acc
    ELSE parse_lines(parse_line(acc, Head(lines)), Tail(lines))

parse_streaming_response(body) == stream_result(parse_lines(StreamAccInit, body.lines))

(***************************************************************************)
(* parse_response                                                          *)
(***************************************************************************)
\* serde_json::from_value::<Message>: an absent or null field is None
Message_from_value(v) ==
    Message(v.role, v.content, v.name, v.tool_call_id, v.tool_calls)

\* doc.defect says where the document stops being a chat completion:
\* "not_json", "no_choices", "no_choice0", "no_message", "bad_message" or "none"
parse_response(body) ==
    IF body.doc.defect = "not_json" THEN Err("Json")
    ELSE IF body.doc.defect = "no_choices" THEN Err("NoChoices")
    ELSE IF body.doc.defect = "no_choice0" THEN Err("NoChoice0")
    ELSE IF body.doc.defect = "no_message" THEN Err("NoMessage")
    ELSE IF body.doc.defect = "bad_message" THEN Err("Json")
    ELSE Ok(Message_from_value(body.doc.message))

(***************************************************************************)
(* The operations of ChatContext, as functions of the context.             *)
(* Each returns the context it leaves, what it returned ("Ok" or the       *)
(* error) and whether a request was sent to the remote endpoint.           *)
(***************************************************************************)
Ctx == [loaded |-> loaded, messages |-> messages,
        chat_stream |-> chat_stream, dirty |-> dirty]

Out(ctx, ret, sent) == [ctx |-> ctx, ret |-> ret, sent |-> sent]

\* template: the chat read from empty_chat.json
\* fs: "ok", "no_template" (read_from_json fails) or "no_chats_dir"
\*     (fs::metadata fails or the directory is read-only, after the chat was set)
new_chat(ctx, template, fs) ==
    IF fs = "no_template" THEN Out(ctx, "Io", FALSE)
    ELSE Out([ctx EXCEPT !.loaded = TRUE, !.messages = template.messages,
                         !.chat_stream = template.stream],
             IF fs = "ok" THEN "Ok" ELSE "Io", FALSE)

\* file: the chat read from <chat_id>.json, None when it cannot be read
load_chat(ctx, file) ==
    IF IsSome(file)
    THEN Out([ctx EXCEPT !.loaded = TRUE, !.messages = Unwrap(file).messages,
                         !.chat_stream = Unwrap(file).stream, !.dirty = FALSE],
             "Ok", FALSE)
    ELSE Out(ctx, "Io", FALSE)

load_or_new_chat(ctx, file, template, fs) ==
    IF load_chat(ctx, file).ret = "Ok" THEN load_chat(ctx, file)
    ELSE new_chat(ctx, template, fs)

\* a variant of save_chat that does not look at the dirty flag
save_chat_always(ctx, file, fs) ==
    IF ctx.loaded
    THEN IF fs = "ok"
         THEN [ret |-> "Ok",
               file |-> Some([messages |-> ctx.messages, stream |-> ctx.chat_stream])]
         ELSE [ret |-> "Io", file |-> file]
    ELSE [ret |-> "NoChatId", file |-> file]

\* what save_chat returns and what it leaves in the chat file
\* fs: "ok", or "fail" when save_to_json fails
save_chat(ctx, file, fs) ==
    IF ctx.dirty
    THEN IF ctx.loaded
         THEN IF fs = "ok"
              THEN [ret |-> "Ok",
                    file |-> Some([messages |-> ctx.messages, stream |-> ctx.chat_stream])]
              ELSE [ret |-> "Io", file |-> file]
         ELSE [ret |-> "NoChatId", file |-> file]
    ELSE [ret |-> "Ok", file |-> file]

add_message(ctx, message) ==
    IF ~ctx.loaded THEN Out(ctx, "NoChatLoaded", FALSE)
    ELSE Out([ctx EXCEPT !.messages = Append(@, message), !.dirty = TRUE], "Ok", FALSE)

\* a variant that never sees a repeated role
last_message_has_role_never(msgs, role) == FALSE

\* "if let Some(last_message) = messages.last_mut() { if last_message.role == role"
last_message_has_role(msgs, role) == msgs # <<>> /\ Last(msgs).role = role

\* a variant that marks the context as modified also when it refuses
add_normal_message_marking(ctx, role, message) ==
    IF ~ctx.loaded THEN Out(ctx, "NoChatLoaded", FALSE)
    ELSE IF last_message_has_role(ctx.messages, role)
    THEN Out([ctx EXCEPT !.dirty = TRUE], "SameRole", FALSE)
    ELSE Out([ctx EXCEPT !.messages = Append(@, Message_normal(role, message)),
                         !.dirty = TRUE], "Ok", FALSE)

add_normal_message(ctx, role, message) ==
    IF ~ctx.loaded THEN Out(ctx, "NoChatLoaded", FALSE)
    ELSE IF last_message_has_role(ctx.messages, role)
    THEN Out(ctx, "SameRole", FALSE)
    ELSE Out([ctx EXCEPT !.messages = Append(@, Message_normal(role, message)),
                         !.dirty = TRUE], "Ok", FALSE)

add_tool_message(ctx, role, name, tool_call_id, message) ==
    IF ~ctx.loaded THEN Out(ctx, "NoChatLoaded", FALSE)
    ELSE Out([ctx EXCEPT
                 !.messages = Append(@, Message_tool_response(role, name, tool_call_id, message)),
                 !.dirty = TRUE], "Ok", FALSE)

\* a variant that takes every body with a data line for a streamed one
is_streaming_without_terminator(body) == contains_data(body)

\* body.contains("data: ") && body.contains("[DONE]")
is_streaming(body) == contains_data(body) /\ contains_done(body)

\* a variant that takes only an assistant message with text for the assistant's
last_message_from_assistant_with_text(last_message) ==
    last_message.role = "assistant" /\ IsSome(last_message.content)

\* a variant that submits whoever spoke last
last_message_from_assistant_never(last_message) == FALSE

\* "if self.get_last_message()?.role == "assistant""
last_message_from_assistant(last_message) == last_message.role = "assistant"

\* net: "ok", or "fail" when the request or the reading of the response fails
call_api(ctx, net, body) ==
    LET c1 == IF ctx.loaded THEN [ctx EXCEPT !.chat_stream = Some(TRUE)] ELSE ctx
        last_message == get_last_message(c1.loaded, c1.messages)
        pending == get_last_pending_tool_call_id(c1.loaded, c1.messages)
    IN IF ~last_message.ok THEN Out(c1, last_message.err, FALSE)
       ELSE IF last_message_from_assistant(Unwrap(last_message.val))
       THEN Out(c1, "LastMessageFromAssistant", FALSE)
       ELSE IF ~pending.ok /\ pending.err # "LastToolCallIdNotFound"
       THEN Out(c1, pending.err, FALSE)
       ELSE IF net = "fail" THEN Out(c1, "Network", TRUE)
       ELSE LET response_message == IF is_streaming(body)
                                    THEN parse_streaming_response(body)
                                    ELSE parse_response(body)
            IN IF ~response_message.ok THEN Out(c1, response_message.err, TRUE)
               ELSE Out(add_message(c1, Unwrap(response_message.val)).ctx, "Ok", TRUE)

(***************************************************************************)
(* The inputs explored.                                                    *)
(***************************************************************************)
Roles == {"user", "assistant"}
ToolRoles == {"tool", "user"}
Contents == {Simple("text")}
ToolCallIds == {"call_1", "call_2"}
ToolNames == {"read"}

\* arguments strings: not JSON, the empty object, and objects with the fields
\* of the file tools, of the todo tools and of execute
NotJsonArguments == "{"
EmptyArguments == "{}"
FileArguments ==
    "{\"path\":\"f\",\"file_path\":\"f\",\"content\":\"c\",\"old_string\":\"a\",\"new_string\":\"b\",\"edits\":[]}"
TodoNameArguments == "{\"name\":\"list\"}"
TodoArguments == "{\"name\":\"list\",\"task\":\"t\"}"
CommandArguments == "{\"command\":\"ls\"}"

ArgumentTexts ==
    {NotJsonArguments, EmptyArguments, FileArguments, TodoNameArguments, TodoArguments,
     CommandArguments}

TC1 == ToolCall("call_1", "function", "read", FileArguments)
TC2 == ToolCall("call_2", "function", "nosuch", "{}")
\* a later call that carries the id of TC1 once more
TC1Again == ToolCall("call_1", "function", "write", "{}")

SystemPrompt == Message_normal("system", Simple("prompt"))
Templates == {[messages |-> <<SystemPrompt>>, stream |-> None],
              [messages |-> <<>>, stream |-> None]}

\* frames of a streamed turn
TextFrame(t) == DataLine(Some(Delta(Some(JStr(t)), None)), None)
ToolHeadFrame(id, name) ==
    DataLine(Some(Delta(Some(JNull),
                        Some(<<ToolCallFragment(Some(id), Some("function"),
                                                Some(FunctionFragment(Some(name), Some(""))))>>))),
             None)
ToolArgsFrame(a) ==
    DataLine(Some(Delta(None,
                        Some(<<ToolCallFragment(None, None,
                                                Some(FunctionFragment(None, Some(a))))>>))),
             None)
FinishFrame(reason) == DataLine(Some(Delta(None, None)), Some(reason))

NotJsonDoc == [defect |-> "not_json", message |-> Message("", None, None, None, None)]
SseBody(lines) == [lines |-> lines, doc |-> NotJsonDoc]
\* a body that is one JSON document: no line of it starts with "data: "
JsonBody(defect, message, has_data, has_done) ==
    [lines |-> <<OtherLine(has_data, has_done)>>,
     doc |-> [defect |-> defect, message |-> message]]

SseText == SseBody(<<TextFrame("Hi"), DataDoneLine>>)
SseTool1 == SseBody(<<ToolHeadFrame("call_1", "read"), ToolArgsFrame("{}"),
                      FinishFrame("tool_calls"), DataDoneLine>>)
SseTwoCalls == SseBody(<<ToolHeadFrame("call_1", "read"), FinishFrame("tool_calls"),
                         ToolHeadFrame("call_2", "nosuch"), FinishFrame("tool_calls"),
                         DataDoneLine>>)
SseNoTerminator == SseBody(<<TextFrame("Hi")>>)
JsonTools == JsonBody("none", Message("assistant", None, None, None, Some(<<TC1, TC2>>)),
                      FALSE, FALSE)
JsonUser == JsonBody("none", Message("user", Some(Simple("text")), None, None, None),
                     FALSE, FALSE)
JsonError == JsonBody("no_choices", NotJsonDoc.message, FALSE, FALSE)

ServerBodies == {SseText, SseTool1, SseTwoCalls, SseNoTerminator,
                 JsonTools, JsonUser, JsonError}

\* chat completion documents whose text holds "[DONE]", and both "data: " and
\* "[DONE]", somewhere inside a string
JsonDoneOnly == JsonBody("none", JsonTools.doc.message, FALSE, TRUE)
JsonQuoting == JsonBody("none", JsonTools.doc.message, TRUE, TRUE)
SubmitBodies == ServerBodies \cup {JsonDoneOnly, JsonQuoting}

(***************************************************************************)
(* The conversation state machine: any sequence of operations.             *)
(***************************************************************************)
NoOp == [op |-> "new", ret |-> "Ok", sent |-> FALSE, val |-> None]

NoArgs == [messages |-> None, role |-> "user", name |-> None, tool_call_id |-> None,
           no_network |-> FALSE]

CliIdle ==
    /\ cli = [pc |-> "idle", args |-> NoArgs, exit |-> "none", dispatched |-> None,
              add_tool_res |-> "Ok"]
    /\ store = None

NoFeed == [lines |-> <<>>, panicked |-> FALSE]

NoExec == [pc |-> "idle"]

ExecIdle ==
    /\ now = 0
    /\ output_buf = <<>>
    /\ pushes = <<>>
    /\ feed = NoFeed
    /\ exec = NoExec
    /\ calls = <<>>

StreamIdle ==
    /\ sBody = SseBody(<<>>)
    /\ sPos = 0
    /\ sAcc = StreamAccInit
    /\ sResult = None

\* ChatContext::new
Init ==
    /\ loaded = FALSE
    /\ messages = <<>>
    /\ chat_stream = None
    /\ dirty = TRUE
    /\ last = NoOp
    /\ StreamIdle
    /\ CliIdle
    /\ ExecIdle

\* the call of op returned out
Apply(op, out) ==
    /\ Len(out.ctx.messages) <= MaxMsgs
    /\ loaded' = out.ctx.loaded
    /\ messages' = out.ctx.messages
    /\ chat_stream' = out.ctx.chat_stream
    /\ dirty' = out.ctx.dirty
    /\ last' = [op |-> op, ret |-> out.ret, sent |-> out.sent, val |-> None]
    /\ UNCHANGED streamVars
    /\ UNCHANGED execVars
    /\ UNCHANGED cliVars

NewChat(template, fs) == Apply("new_chat", new_chat(Ctx, template, fs))

AddNormalMessage(role, message) ==
    Apply("add_normal_message", add_normal_message(Ctx, role, message))

AddToolMessage(role, name, tool_call_id, message) ==
    Apply("add_tool_message", add_tool_message(Ctx, role, name, tool_call_id, message))

CallApi(net, body) == Apply("call_api", call_api(Ctx, net, body))

Next ==
    \/ \E t \in Templates, fs \in {"ok", "no_template", "no_chats_dir"} : NewChat(t, fs)
    \/ \E r \in Roles, c \in Contents : AddNormalMessage(r, c)
    \/ \E r \in ToolRoles, n \in ToolNames, id \in ToolCallIds, c \in Contents :
          AddToolMessage(r, n, id, c)
    \/ \E b \in ServerBodies : CallApi("ok", b)
    \/ CallApi("fail", SseText)

Spec == Init /\ [][Next]_vars

(***************************************************************************)
(* Dispatcher::dispatch                                                    *)
(***************************************************************************)
KnownTools ==
    {"write", "write_file", "read", "edit", "multiedit", "search_replace",
     "add_todo_task", "complete_todo_task", "delete_todo_task",
     "get_todo_lists", "get_todo_tasks", "execute"}

\* serde_json::from_str(arguments) as far as the structs of the tools see it:
\* whether the text is a JSON object, and the fields it has
from_str(arguments) ==
    CASE arguments = EmptyArguments -> [json |-> TRUE, fields |-> {}]
      [] arguments = FileArguments ->
            [json |-> TRUE,
             fields |-> {"path", "file_path", "content", "old_string", "new_string", "edits"}]
      [] arguments = TodoNameArguments -> [json |-> TRUE, fields |-> {"name"}]
      [] arguments = TodoArguments -> [json |-> TRUE, fields |-> {"name", "task"}]
      [] arguments = CommandArguments -> [json |-> TRUE, fields |-> {"command"}]
      [] OTHER -> [json |-> FALSE, fields |-> {}]

\* the fields without a default of the struct a tool reads its arguments into
required_fields(function_name) ==
    CASE function_name \in {"write", "write_file"} -> {"path", "content"}
      [] function_name = "read" -> {"path"}
      [] function_name = "edit" -> {"path", "old_string", "new_string"}
      [] function_name = "multiedit" -> {"path", "edits"}
      [] function_name = "search_replace" -> {"file_path", "content"}
      [] function_name = "execute" -> {"command"}
      [] OTHER -> {}

\* from_str::<T>(arguments) is Ok for the struct T of the tool
deserializes(function_name, arguments) ==
    /\ from_str(arguments).json
    /\ required_fields(function_name) \subseteq from_str(arguments).fields

\* what a call of dispatch did: the value it returned, the tool it ran (if
\* any) and the command it gave to a shell (if any)
Outcome(result, ran, command) == [result |-> result, ran |-> ran, command |-> command]

\* a variant that does not name the function
unknown_function_unnamed(function_name) == Err("Unknown function")

\* _ => Err(format!("Unknown function: {}", function_name))
unknown_function(function_name) == Err("Unknown function: " \o function_name)

\* the tools that read their arguments with from_str(..).map_err(..)?
parsed_tool(function_name, arguments, tool_result) ==
    IF deserializes(function_name, arguments)
    THEN Outcome(tool_result, Some(function_name), None)
    ELSE Outcome(Err(IF function_name = "write_file" THEN "Invalid JSON arguments"
                     ELSE "serde_json error"), None, None)

\* the todo tools: from_str(..).unwrap_or(TodoRequest { name: None, task: None }),
\* then ok_or(..)? on the fields the tool needs
todo_tool(function_name, arguments, needs_task, tool_result) ==
    LET args == IF from_str(arguments).json THEN from_str(arguments).fields ELSE {}
    IN IF "name" \notin args
       THEN Outcome(Err("Missing 'name' for " \o function_name), None, None)
       ELSE IF needs_task /\ "task" \notin args
       THEN Outcome(Err("Missing 'task' for " \o function_name), None, None)
       ELSE Outcome(tool_result, Some(function_name), None)

\* execute: from_str(..).unwrap_or(ExecuteArgs { command: "echo Error" }), then
\* Executor::execute(args).await?
execute_tool(arguments, tool_result) ==
    Outcome(tool_result, Some("execute"),
            Some(IF deserializes("execute", arguments) THEN "ls" ELSE "echo Error"))

\* dispatch, with what it did.  tool_result: what the tool that function_name
\* routes to returns when it runs
dispatch_outcome(function_name, arguments, tool_result) ==
    CASE function_name \in {"write", "write_file", "read", "edit", "multiedit",
                            "search_replace"} ->
            parsed_tool(function_name, arguments, tool_result)
      [] function_name \in {"add_todo_task", "complete_todo_task", "delete_todo_task"} ->
            todo_tool(function_name, arguments, TRUE, tool_result)
      [] function_name = "get_todo_lists" ->
            Outcome(tool_result, Some(function_name), None)
      [] function_name = "get_todo_tasks" ->
            todo_tool(function_name, arguments, FALSE, tool_result)
      [] function_name = "execute" -> execute_tool(arguments, tool_result)
      [] OTHER -> Outcome(unknown_function(function_name), None, None)

dispatch(function_name, arguments, tool_result) ==
    dispatch_outcome(function_name, arguments, tool_result).result

ToolResults == {Ok("result"), Err("error")}

(***************************************************************************)
(* main: one run of the command line client after another, on the chat     *)
(* file of one chat id.                                                    *)
(***************************************************************************)
CliArgs ==
    [messages : {None, Some(<<"text">>)},
     role : {"user", "tool"},
     name : {None, Some("read")},
     tool_call_id : {None, Some("call_1")},
     no_network : BOOLEAN]

\* "messages.len() > 0 && args.role == "tool" && args.name.is_none()"
usage_error(args) ==
    /\ IsSome(args.messages)
    /\ Len(Unwrap(args.messages)) > 0
    /\ args.role = "tool"
    /\ ~IsSome(args.name)

\* the content built from the positional arguments (all of them text)
content_of(args) ==
    IF IsSome(args.messages)
    THEN LET parts == Unwrap(args.messages)
         IN IF Len(parts) = 1 THEN Simple(parts[1])
            ELSE Multi([i \in 1..Len(parts) |-> [type |-> "text", text |-> parts[i]]])
    ELSE Simple("")

\* "let add_tool_res = match args.name { .. }": the context it leaves, whether
\* main returned an error from it, and the tool call it dispatched
main_add(ctx, args, tool_result) ==
    LET content == content_of(args)
        pending == get_last_pending_tool_call_id(ctx.loaded, ctx.messages)
        \* main goes on to call_api, with add_tool_res holding what the add returned
        Go(out, d) == [ctx |-> out.ctx, exit |-> "none", dispatched |-> d,
                       add_tool_res |-> out.ret]
        Stop(c) == [ctx |-> c, exit |-> "error", dispatched |-> None, add_tool_res |-> "Ok"]
        Nothing(c) == Out(c, "Ok", FALSE)
    IN IF IsSome(args.name)
       THEN IF IsSome(args.tool_call_id)
            THEN Go(add_tool_message(ctx, args.role, Unwrap(args.name),
                                     Unwrap(args.tool_call_id), content), None)
            ELSE IF ~pending.ok \/ ~IsSome(Unwrap(pending.val)) THEN Stop(ctx)
            ELSE Go(add_tool_message(ctx, args.role, Unwrap(args.name),
                                     Unwrap(Unwrap(pending.val)), content), None)
       ELSE IF content.kind = "Simple"
       THEN IF content.text # ""
            THEN Go(add_normal_message(ctx, args.role, content), None)
            ELSE IF args.role = "tool"
            THEN IF ~pending.ok \/ ~IsSome(Unwrap(pending.val)) THEN Stop(ctx)
                 ELSE LET tool_call_id == Unwrap(Unwrap(pending.val))
                          tool_call == get_tool_call(ctx.loaded, ctx.messages, tool_call_id)
                      IN IF ~tool_call.ok THEN Stop(ctx)
                         ELSE LET function == Unwrap(tool_call.val).function
                                  tool_response ==
                                      dispatch(function.name, function.arguments, tool_result)
                              IN Go(Nothing(IF tool_response.ok
                                            THEN add_tool_message(ctx, "tool", function.name,
                                                     tool_call_id,
                                                     Simple(Unwrap(tool_response.val))).ctx
                                            ELSE ctx),
                                    Some([id |-> tool_call_id, name |-> function.name,
                                          ok |-> tool_response.ok]))
            ELSE Go(Nothing(ctx), None)
       ELSE Go(add_normal_message(ctx, args.role, content), None)

SetCtx(ctx) ==
    /\ Len(ctx.messages) <= MaxMsgs
    /\ loaded' = ctx.loaded
    /\ messages' = ctx.messages
    /\ chat_stream' = ctx.chat_stream
    /\ dirty' = ctx.dirty

Stage(op, ret, sent) == [op |-> op, ret |-> ret, sent |-> sent, val |-> None]

\* Cli::parse, the checks of the arguments, ChatContext::new
CliStart(args) ==
    /\ cli.pc = "idle"
    /\ SetCtx([loaded |-> FALSE, messages |-> <<>>, chat_stream |-> None, dirty |-> TRUE])
    /\ last' = NoOp
    /\ cli' = IF usage_error(args)
              THEN [pc |-> "idle", args |-> args, exit |-> "usage", dispatched |-> None,
                    add_tool_res |-> "Ok"]
              ELSE [pc |-> "load", args |-> args, exit |-> "none", dispatched |-> None,
                    add_tool_res |-> "Ok"]
    /\ UNCHANGED store
    /\ UNCHANGED streamVars
    /\ UNCHANGED execVars

\* ctx.load_or_new_chat(&args.chat_id)?
CliLoad(template, fs) ==
    /\ cli.pc = "load"
    /\ LET out == load_or_new_chat(Ctx, store, template, fs)
       IN /\ SetCtx(out.ctx)
          /\ last' = Stage("load_or_new_chat", out.ret, FALSE)
          /\ cli' = IF out.ret = "Ok" THEN [cli EXCEPT !.pc = "add"]
                    ELSE [cli EXCEPT !.pc = "idle", !.exit = "error"]
    /\ UNCHANGED store
    /\ UNCHANGED streamVars
    /\ UNCHANGED execVars

\* the tool response, the normal message or the dispatch of the pending tool call
CliAdd(tool_result) ==
    /\ cli.pc = "add"
    /\ LET out == main_add(Ctx, cli.args, tool_result)
       IN /\ SetCtx(out.ctx)
          /\ last' = Stage("main_add", IF out.exit = "none" THEN "Ok" ELSE "Err", FALSE)
          /\ cli' = IF out.exit = "none"
                    THEN [cli EXCEPT !.pc = "call", !.dispatched = out.dispatched,
                                     !.add_tool_res = out.add_tool_res]
                    ELSE [cli EXCEPT !.pc = "idle", !.exit = "error"]
    /\ UNCHANGED store
    /\ UNCHANGED streamVars
    /\ UNCHANGED execVars

\* a variant without the "?": main goes on to save_chat when call_api failed
CliCallApi_then_save(net, body) ==
    /\ cli.pc = "call"
    /\ IF cli.args.no_network
       THEN /\ UNCHANGED <<loaded, messages, chat_stream, dirty>>
            /\ last' = Stage("no_network", "Ok", FALSE)
            /\ cli' = [cli EXCEPT !.pc = "save"]
       ELSE LET out == call_api(Ctx, net, body)
            IN /\ SetCtx(out.ctx)
               /\ last' = Stage("call_api", out.ret, out.sent)
               /\ cli' = IF out.ret = "Panic" THEN [cli EXCEPT !.pc = "idle", !.exit = "panic"]
                         ELSE [cli EXCEPT !.pc = "save"]
    /\ UNCHANGED store
    /\ UNCHANGED streamVars
    /\ UNCHANGED execVars

\* if args.no_network { "No network" } else { ctx.call_api().await? }
CliCallApi(net, body) ==
    /\ cli.pc = "call"
    /\ IF cli.args.no_network
       THEN /\ UNCHANGED <<loaded, messages, chat_stream, dirty>>
            /\ last' = Stage("no_network", "Ok", FALSE)
            /\ cli' = [cli EXCEPT !.pc = "save"]
       ELSE LET out == call_api(Ctx, net, body)
            IN /\ SetCtx(out.ctx)
               /\ last' = Stage("call_api", out.ret, out.sent)
               /\ cli' = IF out.ret = "Ok" THEN [cli EXCEPT !.pc = "save"]
                         ELSE IF out.ret = "Panic" THEN [cli EXCEPT !.pc = "idle", !.exit = "panic"]
                         ELSE [cli EXCEPT !.pc = "idle", !.exit = "error"]
    /\ UNCHANGED store
    /\ UNCHANGED streamVars
    /\ UNCHANGED execVars

\* ctx.save_chat()?
CliSave(fs) ==
    /\ cli.pc = "save"
    /\ LET out == save_chat(Ctx, store, fs)
       IN /\ store' = out.file
          /\ last' = Stage("save_chat", out.ret, FALSE)
          /\ cli' = [cli EXCEPT !.pc = "idle", !.exit = IF out.ret = "Ok" THEN "ok" ELSE "error"]
    /\ UNCHANGED <<loaded, messages, chat_stream, dirty>>
    /\ UNCHANGED streamVars
    /\ UNCHANGED execVars

InitCli == Init

NextCli ==
    \/ \E args \in CliArgs : CliStart(args)
    \/ \E t \in Templates, fs \in {"ok", "no_template", "no_chats_dir"} : CliLoad(t, fs)
    \/ \E r \in ToolResults : CliAdd(r)
    \/ \E b \in ServerBodies : CliCallApi("ok", b)
    \/ CliCallApi("fail", SseText)
    \/ \E fs \in {"ok", "fail"} : CliSave(fs)

SpecCli == InitCli /\ [][NextCli]_vars

(***************************************************************************)
(* A session: the operations of one ChatContext, with the chat file that   *)
(* load_chat reads and save_chat writes.                                   *)
(***************************************************************************)
MaxSessionMsgs == 2

\* "if let Some(message) = .. messages.first_mut()": the chat is loaded and has
\* a first message
first_message_exists(ctx) == ctx.loaded /\ ctx.messages # <<>>

set_system_prompt(ctx, system_prompt) ==
    IF ~first_message_exists(ctx) THEN Out(ctx, "SystemPromptNotFound", FALSE)
    ELSE IF ctx.messages[1].role # "system" THEN Out(ctx, "SystemPromptNotFound", FALSE)
    ELSE Out([ctx EXCEPT !.messages[1].content = Some(Simple(system_prompt)),
                         !.dirty = TRUE], "Ok", FALSE)

\* the chat as save_to_json writes it
chat_of(ctx) == [messages |-> ctx.messages, stream |-> ctx.chat_stream]

SessionMessages == {Message("assistant", None, None, None, Some(<<TC1>>))}
SessionBodies == {SseText, JsonError}

InitSession == Init

\* the call of op returned out and left file in the chat file
SessionApply(op, out, file) ==
    /\ Len(out.ctx.messages) <= MaxSessionMsgs
    /\ loaded' = out.ctx.loaded
    /\ messages' = out.ctx.messages
    /\ chat_stream' = out.ctx.chat_stream
    /\ dirty' = out.ctx.dirty
    /\ last' = [op |-> op, ret |-> out.ret, sent |-> out.sent, val |-> None]
    /\ store' = file
    /\ UNCHANGED cli
    /\ UNCHANGED streamVars
    /\ UNCHANGED execVars

SessNewChat(template, fs) == SessionApply("new_chat", new_chat(Ctx, template, fs), store)

SessLoadChat == SessionApply("load_chat", load_chat(Ctx, store), store)

SessSetSystemPrompt(system_prompt) ==
    SessionApply("set_system_prompt", set_system_prompt(Ctx, system_prompt), store)

SessAddMessage(message) == SessionApply("add_message", add_message(Ctx, message), store)

SessAddNormalMessage(role, message) ==
    SessionApply("add_normal_message", add_normal_message(Ctx, role, message), store)

SessAddToolMessage(role, name, tool_call_id, message) ==
    SessionApply("add_tool_message",
                 add_tool_message(Ctx, role, name, tool_call_id, message), store)

SessCallApi(net, body) == SessionApply("call_api", call_api(Ctx, net, body), store)

SessSaveChat(fs) ==
    LET out == save_chat(Ctx, store, fs)
    IN SessionApply("save_chat", Out(Ctx, out.ret, FALSE), out.file)

NextSession ==
    \/ \E t \in Templates, fs \in {"ok", "no_template", "no_chats_dir"} : SessNewChat(t, fs)
    \/ SessLoadChat
    \/ SessSetSystemPrompt("other")
    \/ \E m \in SessionMessages : SessAddMessage(m)
    \/ \E r \in Roles, c \in Contents : SessAddNormalMessage(r, c)
    \/ \E c \in Contents : SessAddToolMessage("tool", "read", "call_1", c)
    \/ \E b \in SessionBodies : SessCallApi("ok", b)
    \/ SessCallApi("fail", SseText)
    \/ \E fs \in {"ok", "fail"} : SessSaveChat(fs)

SpecSession == InitSession /\ [][NextSession]_vars

(***************************************************************************)
(* Dispatcher::dispatch, called again and again.                           *)
(***************************************************************************)
MaxDispatches == 1

FunctionNames == KnownTools \cup {"nosuch", ""}

InitDispatch == Init

\* self.dispatch(function_name, arguments).await
Dispatch(function_name, arguments, tool_result) ==
    /\ Len(calls) < MaxDispatches
    /\ calls' = Append(calls, [function_name |-> function_name, arguments |-> arguments,
                                outcome |-> dispatch_outcome(function_name, arguments,
                                                             tool_result)])
    /\ UNCHANGED <<now, output_buf, pushes, feed, exec>>
    /\ UNCHANGED chatVars
    /\ UNCHANGED streamVars
    /\ UNCHANGED cliVars

NextDispatch ==
    \E function_name \in FunctionNames, arguments \in ArgumentTexts,
       tool_result \in ToolResults :
        Dispatch(function_name, arguments, tool_result)

SpecDispatch == InitDispatch /\ [][NextDispatch]_vars

(***************************************************************************)
(* A Message written into a non-streaming response object and read back by *)
(* parse_response.  A String is a sequence of characters here, and a JSON   *)
(* string is held as the characters between its quotes.                    *)
(***************************************************************************)
\* longest arguments string written, in characters
MaxText == 2
Chars == {"a", "\"", "\\", "\n"}
Texts == SeqsUpTo(Chars, MaxText)
ShortTexts == SeqsUpTo(Chars, 1)

\* a variant that writes every character as it is
escape_char_raw(c) == <<c>>

\* how a character of a String is written inside a JSON string
escape_char(c) ==
    IF c = "\"" THEN <<"\\", "\"">>
    ELSE IF c = "\\" THEN <<"\\", "\\">>
    ELSE IF c = "\n" THEN <<"\\", "n">>
    ELSE <<c>>

RECURSIVE escape(_)
escape(str) == IF str = <<>> THEN <<>> ELSE escape_char(Head(str)) \o escape(Tail(str))

\* the String a JSON string stands for; None when it is not a JSON string
RECURSIVE unescape(_)
unescape(lit) ==
    IF lit = <<>> THEN Some(<<>>)
    ELSE IF Head(lit) \in {"\"", "\n"} THEN None
    ELSE IF Head(lit) = "\\"
         THEN IF Len(lit) < 2 \/ lit[2] \notin {"\"", "\\", "n"} THEN None
              ELSE LET rest == unescape(SubSeq(lit, 3, Len(lit)))
                   IN IF rest = None THEN None
                      ELSE Some(<<IF lit[2] = "n" THEN "\n" ELSE lit[2]>> \o Unwrap(rest))
    ELSE LET rest == unescape(Tail(lit))
         IN IF rest = None THEN None ELSE Some(<<Head(lit)>> \o Unwrap(rest))

\* Serialize of ToolCall and FunctionCall: tool_type is written as "type"
ToolCall_to_json(tc) ==
    [id |-> JStr(escape(tc.id)), type |-> JStr(escape(tc.tool_type)),
     function |-> [name |-> JStr(escape(tc.function.name)),
                   arguments |-> JStr(escape(tc.function.arguments))]]

\* Serialize of MessageContent (untagged) and ContentPart (tagged by "type")
MessageContent_to_json(c) ==
    IF c.kind = "Simple" THEN [kind |-> "string", s |-> escape(c.text), array |-> <<>>]
    ELSE [kind |-> "array", s |-> <<>>,
          array |-> [i \in 1..Len(c.parts) |->
                        [type |-> JStr(escape(c.parts[i].type)),
                         text |-> JStr(escape(c.parts[i].text))]]]

\* Serialize of Message: content is always written, null when None; name,
\* tool_call_id and tool_calls are skipped when None
Message_to_json(m) ==
    [role |-> Some(JStr(escape(m.role))),
     content |-> Some(IF IsSome(m.content) THEN MessageContent_to_json(Unwrap(m.content))
                      ELSE [kind |-> "null", s |-> <<>>, array |-> <<>>]),
     name |-> IF IsSome(m.name) THEN Some(JStr(escape(Unwrap(m.name)))) ELSE None,
     tool_call_id |-> IF IsSome(m.tool_call_id)
                      THEN Some(JStr(escape(Unwrap(m.tool_call_id)))) ELSE None,
     tool_calls |-> IF IsSome(m.tool_calls)
                    THEN Some([i \in 1..Len(Unwrap(m.tool_calls)) |->
                                  ToolCall_to_json(Unwrap(m.tool_calls)[i])])
                    ELSE None]

\* {"choices":[{"message": m}]}
response_object(m) == [choices |-> <<[message |-> Message_to_json(m)]>>]

\* the JSON strings of a written message
strings_of(j) ==
    {Unwrap(j.role).s}
    \cup (IF Unwrap(j.content).kind = "string" THEN {Unwrap(j.content).s} ELSE {})
    \cup {Unwrap(j.content).array[i].text.s : i \in 1..Len(Unwrap(j.content).array)}
    \cup {Unwrap(j.content).array[i].type.s : i \in 1..Len(Unwrap(j.content).array)}
    \cup (IF IsSome(j.name) THEN {Unwrap(j.name).s} ELSE {})
    \cup (IF IsSome(j.tool_call_id) THEN {Unwrap(j.tool_call_id).s} ELSE {})
    \cup UNION {{tc.id.s, tc.type.s, tc.function.name.s, tc.function.arguments.s} :
                  tc \in (IF IsSome(j.tool_calls)
                          THEN {Unwrap(j.tool_calls)[i] : i \in 1..Len(Unwrap(j.tool_calls))}
                          ELSE {})}

String_from_json(v) == Unwrap(unescape(v.s))

\* Deserialize of ToolCall and FunctionCall
ToolCall_from_json(j) ==
    ToolCall(String_from_json(j.id), String_from_json(j.type),
             String_from_json(j.function.name), String_from_json(j.function.arguments))

\* MessageContent::Multi, its unused text being the empty sequence of characters
MultiParts(parts) == [Multi(parts) EXCEPT !.text = <<>>]

\* Deserialize of MessageContent: a string is Simple, an array is Multi
MessageContent_from_json(j) ==
    IF j.kind = "string" THEN Simple(Unwrap(unescape(j.s)))
    ELSE MultiParts([i \in 1..Len(j.array) |->
                   [type |-> String_from_json(j.array[i].type),
                    text |-> String_from_json(j.array[i].text)]])

\* the value serde_json::from_str reads from the written message: an absent
\* or null member is None
value_of(j) ==
    [role |-> String_from_json(Unwrap(j.role)),
     content |-> IF Unwrap(j.content).kind = "null" THEN None
                 ELSE Some(MessageContent_from_json(Unwrap(j.content))),
     name |-> IF IsSome(j.name) THEN Some(String_from_json(Unwrap(j.name))) ELSE None,
     tool_call_id |-> IF IsSome(j.tool_call_id)
                      THEN Some(String_from_json(Unwrap(j.tool_call_id))) ELSE None,
     tool_calls |-> IF IsSome(j.tool_calls)
                    THEN Some([i \in 1..Len(Unwrap(j.tool_calls)) |->
                                  ToolCall_from_json(Unwrap(j.tool_calls)[i])])
                    ELSE None]

\* serde_json::from_str(&response), then choices[0].message
document(response) ==
    LET j == response.choices[1].message
    IN IF \E lit \in strings_of(j) : unescape(lit) = None THEN NotJsonDoc
       ELSE [defect |-> "none", message |-> value_of(j)]

\* parse_response(&response) of a response text
parse_response_text(response) == parse_response([doc |-> document(response)])

RoundTripContents ==
    {None, Some(Simple(<<"a", "\"">>)), Some(MultiParts(<<[type |-> <<"a">>, text |-> <<"\\">>]>>))}
RoundTripToolCalls ==
    {ToolCall(id, <<"a">>, name, arguments) :
        id \in ShortTexts, name \in ShortTexts, arguments \in Texts}
RoundTripMessages ==
    {Message(<<"a">>, content, None, None, Some(<<tc>>)) :
        content \in RoundTripContents, tc \in RoundTripToolCalls}
    \cup {Message(<<"a">>, None, None, None,
                  Some(<<ToolCall(<<"a">>, <<"a">>, <<"a">>, arguments),
                         ToolCall(<<"\"">>, <<"a">>, <<"\\">>, <<>>)>>)) :
             arguments \in Texts}

InitRoundTrip == Init

\* serde_json::to_string of a response object holding message
WriteResponse(message) ==
    /\ sPos = 0
    /\ sBody' = [lines |-> <<>>, doc |-> NotJsonDoc, text |-> Some(response_object(message))]
    /\ sPos' = 1
    /\ sResult' = None
    /\ last' = [op |-> "to_string", ret |-> "Ok", sent |-> FALSE, val |-> Some(message)]
    /\ UNCHANGED <<loaded, messages, chat_stream, dirty, sAcc>>
    /\ UNCHANGED cliVars
    /\ UNCHANGED execVars

\* ChatContext::parse_response(&content)
ReadResponse ==
    /\ sPos = 1
    /\ sResult' = Some(parse_response_text(Unwrap(sBody.text)))
    /\ sPos' = 2
    /\ last' = [last EXCEPT !.op = "parse_response",
                            !.ret = IF Unwrap(sResult').ok THEN "Ok" ELSE Unwrap(sResult').err]
    /\ UNCHANGED <<loaded, messages, chat_stream, dirty, sBody, sAcc>>
    /\ UNCHANGED cliVars
    /\ UNCHANGED execVars

NextRoundTrip ==
    \/ \E message \in RoundTripMessages : WriteResponse(message)
    \/ ReadResponse

SpecRoundTrip == InitRoundTrip /\ [][NextRoundTrip]_vars

(***************************************************************************)
(* FileLibrary::read_file, the read tool (tools/files/mod.rs).             *)
(***************************************************************************)
\* The width of usize the model computes with.  The targets have 64 (or 32)
\* bits; the model keeps the widest width at which 32-bit signed arithmetic
\* still computes start + limit exactly.  The sum 1 + usize::MAX of the
\* defaults overflows and wraps to 0 at every width.
USIZE_BITS == 30
usize_MAX == 2^USIZE_BITS - 1

\* the literal of `.min(1000)`
READ_INDEX_CAP == 1000

\* longest of the short files read, largest small offset and small limit asked
MaxFileLines == 3
MaxOffset == 5
MaxLimit == 2

\* content.lines() of a file of n lines: the text of line i is written i
FileLines(n) == [i \in 1..n |-> i]

\* fs::read_to_string(&args.path): None for a path that cannot be read
ReadContents ==
    {None} \cup {Some(FileLines(n)) :
                    n \in (0..MaxFileLines) \cup {READ_INDEX_CAP, READ_INDEX_CAP + 1}}

\* ReadArgs as serde deserialises them (the path is given by what it holds)
ReadArgsSet ==
    [show_line_numbers : {None, Some(FALSE), Some(TRUE)},
     offset : {None} \cup {Some(o) : o \in (0..MaxOffset)
                              \cup {READ_INDEX_CAP + 1, READ_INDEX_CAP + 2, usize_MAX}},
     limit : {None} \cup {Some(l) : l \in (0..MaxLimit) \cup {READ_INDEX_CAP, usize_MAX}}]

unwrap_or(o, default) == IF IsSome(o) THEN Unwrap(o) ELSE default
saturating_sub(a, b) == IF a >= b THEN a - b ELSE 0
min(a, b) == IF a <= b THEN a ELSE b

\* a + b on usize: with overflow checks (the dev profile) a sum above
\* usize::MAX panics, without them (the release profile) it wraps around
usize_add(a, b, overflow_checks) ==
    IF a + b <= usize_MAX THEN Some(a + b)
    ELSE IF overflow_checks THEN None
    ELSE Some((a + b) % (2^USIZE_BITS))

\* FileLibrary::read_file(args) where the path holds content: the value
\* returned, or a panic; the string returned is kept as the sequence of its
\* lines, each with its number when show_line_numbers is set
read_file(content, args, overflow_checks) ==
    IF ~IsSome(content) THEN [ret |-> "Err", val |-> None, err |-> "io"]
    ELSE
    LET show == unwrap_or(args.show_line_numbers, FALSE)
        start == unwrap_or(args.offset, 1)
        limit == unwrap_or(args.limit, usize_MAX)
        file == Unwrap(content)
        start_idx == saturating_sub(start, 1)
        total == usize_add(start, limit, overflow_checks)
        end_idx == min(min(Unwrap(total), Len(file)), READ_INDEX_CAP)
    IN  IF start = 0 THEN [ret |-> "Err", val |-> None, err |-> "line_start must be >= 1"]
        ELSE IF ~IsSome(total)
        THEN [ret |-> "Panic", val |-> None, err |-> "attempt to add with overflow"]
        ELSE IF start_idx > end_idx \/ end_idx > Len(file)
        THEN [ret |-> "Panic", val |-> None, err |-> "slice index"]
        ELSE [ret |-> "Ok",
              val |-> Some([i \in 1..(end_idx - start_idx) |->
                               IF show THEN <<start_idx + i, file[start_idx + i]>>
                               ELSE <<file[start_idx + i]>>]),
              err |-> "None"]

\* a file, the arguments of a call of the read tool, and the build
InitRead ==
    /\ loaded = FALSE
    /\ messages = <<>>
    /\ chat_stream = None
    /\ dirty = TRUE
    /\ last = NoOp
    /\ sBody \in [content : ReadContents, args : ReadArgsSet, overflow_checks : BOOLEAN]
    /\ sPos = 0
    /\ sAcc = None
    /\ sResult = None
    /\ CliIdle
    /\ ExecIdle

\* Dispatcher::dispatch("read", arguments) calls FileLibrary::read_file(args)
ReadFile ==
    /\ sPos = 0
    /\ sPos' = 1
    /\ sResult' = Some(read_file(sBody.content, sBody.args, sBody.overflow_checks))
    /\ last' = [op |-> "read_file", ret |-> Unwrap(sResult').ret, sent |-> FALSE, val |-> None]
    /\ UNCHANGED <<loaded, messages, chat_stream, dirty, sBody, sAcc>>
    /\ UNCHANGED cliVars
    /\ UNCHANGED execVars

NextRead == ReadFile

SpecRead == InitRead /\ [][NextRead]_vars

(***************************************************************************)
(* The queries of ChatContext, asked of any conversation a chat file or a  *)
(* response can hold.                                                      *)
(***************************************************************************)
\* longest log the queries are asked of
MaxLog == 3

\* messages as serde deserialises them: any field may be present
QueryMessages ==
    {Message_normal("user", Simple("text")),
     Message("assistant", None, None, None, Some(<<TC1>>)),
     Message("assistant", None, None, None, Some(<<TC1, TC2>>)),
     Message("assistant", None, None, Some("call_1"), Some(<<TC1>>)),
     Message("assistant", None, None, None, Some(<<TC1Again>>)),
     Message_tool_response("tool", "read", "call_1", Simple("text")),
     Message_tool_response("tool", "nosuch", "call_2", Simple("text"))}

InitQuery ==
    /\ loaded \in BOOLEAN
    /\ messages \in (IF loaded THEN SeqsUpTo(QueryMessages, MaxLog) ELSE {<<>>})
    /\ chat_stream = None
    /\ dirty = FALSE
    /\ last = NoOp
    /\ StreamIdle
    /\ CliIdle
    /\ ExecIdle

\* a query returned r: the context is left as it was
Answer(op, r) ==
    /\ last' = [op |-> op, ret |-> IF r.ok THEN "Ok" ELSE r.err, sent |-> FALSE,
                val |-> r.val]
    /\ UNCHANGED <<loaded, messages, chat_stream, dirty>>
    /\ UNCHANGED streamVars
    /\ UNCHANGED execVars
    /\ UNCHANGED cliVars

GetLastPendingToolCallId ==
    Answer("get_last_pending_tool_call_id", get_last_pending_tool_call_id(loaded, messages))

GetToolCall(tool_call_id) ==
    Answer("get_tool_call", get_tool_call(loaded, messages, tool_call_id))

GetLastMessage == Answer("get_last_message", get_last_message(loaded, messages))

NextQuery ==
    \/ GetLastPendingToolCallId
    \/ \E id \in ToolCallIds : GetToolCall(id)
    \/ GetLastMessage

SpecQuery == InitQuery /\ [][NextQuery]_vars

(***************************************************************************)
(* call_api on any conversation a chat file can hold, answered with any    *)
(* body.                                                                   *)
(***************************************************************************)
InitSubmit == InitQuery

NextSubmit == \E b \in SubmitBodies : CallApi("ok", b)

SpecSubmit == InitSubmit /\ [][NextSubmit]_vars

(***************************************************************************)
(* The queries and add_normal_message, on any conversation a chat file can *)
(* hold.                                                                   *)
(***************************************************************************)
InitFrame == InitQuery

NextFrame ==
    \/ NextQuery
    \/ \E r \in Roles, c \in Contents : AddNormalMessage(r, c)

SpecFrame == InitFrame /\ [][NextFrame]_vars

(***************************************************************************)
(* parse_streaming_response, one line of the body at a time.               *)
(***************************************************************************)
StreamLines ==
    {BlankLine, DoneLine, DataDoneLine, DataGarbageLine, DataNoChoiceLine,
     OtherLine(FALSE, FALSE),
     TextFrame("Hi"), TextFrame(" there"),
     ToolHeadFrame("call_1", "read"), ToolArgsFrame("{\"a\":"), ToolArgsFrame("1}"),
     FinishFrame("tool_calls"), FinishFrame("stop")}

InitStream ==
    /\ loaded = FALSE
    /\ messages = <<>>
    /\ chat_stream = None
    /\ dirty = TRUE
    /\ last = NoOp
    /\ sBody \in {SseBody(lines) : lines \in SeqsUpTo(StreamLines, MaxLines)}
    /\ sPos = 0
    /\ sAcc = StreamAccInit
    /\ sResult = None
    /\ CliIdle
    /\ ExecIdle

\* one iteration of the loop over the lines
ParseLine ==
    /\ sResult = None
    /\ sPos < Len(sBody.lines)
    /\ sAcc' = parse_line(sAcc, sBody.lines[sPos + 1])
    /\ sPos' = sPos + 1
    /\ UNCHANGED <<sBody, sResult>>
    /\ UNCHANGED chatVars
    /\ UNCHANGED cliVars
    /\ UNCHANGED execVars

\* the loop has ended: panic, or return the message
ParseReturn ==
    /\ sResult = None
    /\ sPos = Len(sBody.lines)
    /\ sResult' = Some(stream_result(sAcc))
    /\ UNCHANGED <<sBody, sPos, sAcc>>
    /\ UNCHANGED chatVars
    /\ UNCHANGED cliVars
    /\ UNCHANGED execVars

NextStream == ParseLine \/ ParseReturn

SpecStream == InitStream /\ [][NextStream]_vars

(***************************************************************************)
(* tools/executor.rs: strings, as the bytes of their UTF-8 encoding.       *)
(* A byte is an ASCII character ("h"), the lead byte of a character of two *)
(* bytes ("L2"), a continuation byte ("C") or a byte that no UTF-8 text    *)
(* holds ("X").                                                            *)
(***************************************************************************)
MAX_LINES == 128
MAX_LINE_LEN == 256

\* str::is_char_boundary
is_char_boundary(s, index) ==
    IF index = 0 THEN TRUE
    ELSE IF index >= Len(s) THEN index = Len(s)
    ELSE s[index + 1] # "C"

\* String::truncate: "Panics if new_len does not lie on a char boundary"
String_truncate(s, new_len) ==
    IF new_len <= Len(s)
    THEN IF is_char_boundary(s, new_len)
         THEN [panic |-> FALSE, s |-> SubSeq(s, 1, new_len)]
         ELSE [panic |-> TRUE, s |-> s]
    ELSE [panic |-> FALSE, s |-> s]

\* std::str::from_utf8, as the lines() of a BufReader apply it to each line
is_utf8(bytes) ==
    \A i \in 1..Len(bytes) :
        /\ bytes[i] # "X"
        /\ bytes[i] = "L2" => (i < Len(bytes) /\ bytes[i + 1] = "C")
        /\ bytes[i] = "C" => (i > 1 /\ bytes[i - 1] = "L2")

TimedLine(at, kind, line) == [at |-> at, kind |-> kind, line |-> line]

\* a variant that makes room by dropping the newest entry
remove_newest(buf) == SubSeq(buf, 1, Len(buf) - 1)

\* buf.remove(0)
remove_oldest(buf) == Tail(buf)

\* a variant that puts the new line in front of the buffer
push_bounded_in_front(buf, kind, line, at) ==
    LET cut == IF Len(line) > MAX_LINE_LEN
               THEN String_truncate(line, MAX_LINE_LEN)
               ELSE [panic |-> FALSE, s |-> line]
        room == IF Len(buf) = MAX_LINES THEN remove_oldest(buf) ELSE buf
    IN IF cut.panic THEN [panic |-> TRUE, buf |-> buf]
       ELSE [panic |-> FALSE, buf |-> <<TimedLine(at, kind, cut.s)>> \o room]

\* push_bounded at time `at`: the buffer it leaves, or the panic of truncate
push_bounded(buf, kind, line, at) ==
    LET cut == IF Len(line) > MAX_LINE_LEN
               THEN String_truncate(line, MAX_LINE_LEN)
               ELSE [panic |-> FALSE, s |-> line]
        room == IF Len(buf) = MAX_LINES THEN remove_oldest(buf) ELSE buf
    IN IF cut.panic THEN [panic |-> TRUE, buf |-> buf]
       ELSE [panic |-> FALSE, buf |-> Append(room, TimedLine(at, kind, cut.s))]

(***************************************************************************)
(* The bounded line buffer on its own: the drain loop pushes what the two  *)
(* streams deliver.                                                        *)
(***************************************************************************)
MaxPushes == 130

Ascii(n) == [i \in 1..n |-> "a"]

StreamKinds == {"Stdout", "Stderr"}

LineHi == <<"h", "i">>
LineLo == <<"l", "o">>
LineMax == Ascii(MAX_LINE_LEN)
LineLong == Ascii(MAX_LINE_LEN + 1)
\* longer than the maximum, with a character of two bytes that ends at the cut
LineWideBeforeCut == Ascii(MAX_LINE_LEN - 2) \o <<"L2", "C", "a">>
\* longer than the maximum, with a character of two bytes across the cut
LineWideAcrossCut == Ascii(MAX_LINE_LEN - 1) \o <<"L2", "C">>

Delivery(kind, line) == [kind |-> kind, line |-> line]

\* what the streams deliver, repeated for as long as the loop runs
Feeds ==
    {<<Delivery("Stdout", LineHi)>>,
     <<Delivery("Stdout", LineHi), Delivery("Stderr", LineMax), Delivery("Stdout", LineLong)>>,
     <<Delivery("Stderr", LineWideBeforeCut), Delivery("Stdout", LineHi),
       Delivery("Stderr", LineHi)>>,
     <<Delivery("Stdout", LineHi), Delivery("Stderr", LineHi), Delivery("Stdout", LineMax),
       Delivery("Stdout", LineWideAcrossCut)>>,
     <<Delivery("Stderr", LineLong), Delivery("Stdout", LineWideBeforeCut),
       Delivery("Stdout", LineHi), Delivery("Stderr", LineMax), Delivery("Stderr", LineHi)>>}

InitBuffer ==
    /\ loaded = FALSE
    /\ messages = <<>>
    /\ chat_stream = None
    /\ dirty = TRUE
    /\ last = NoOp
    /\ StreamIdle
    /\ CliIdle
    /\ now = 0
    /\ output_buf = <<>>
    /\ pushes = <<>>
    /\ feed \in {[lines |-> f, panicked |-> FALSE] : f \in Feeds}
    /\ exec = NoExec
    /\ calls = <<>>

\* one round of the drain loop: next_line() gave Some(l), push_bounded stores it
Push(kind, l) ==
    /\ ~feed.panicked
    /\ Len(pushes) < MaxPushes
    /\ LET r == push_bounded(output_buf, kind, l, now)
       IN IF r.panic
          THEN /\ feed' = [feed EXCEPT !.panicked = TRUE]
               /\ UNCHANGED <<output_buf, pushes>>
          ELSE /\ output_buf' = r.buf
               /\ pushes' = Append(pushes, Delivery(kind, l))
               /\ UNCHANGED feed
    /\ UNCHANGED <<now, exec, calls>>
    /\ UNCHANGED chatVars
    /\ UNCHANGED streamVars
    /\ UNCHANGED cliVars

NextBuffer ==
    \E d \in {feed.lines[(Len(pushes) % Len(feed.lines)) + 1]} : Push(d.kind, d.line)

SpecBuffer == InitBuffer /\ [][NextBuffer]_vars

(***************************************************************************)
(* Executor::execute.  The clock counts periods of the timeout of execute, *)
(* so the 1 s that terminate_child_gracefully waits is below its           *)
(* resolution.                                                             *)
(***************************************************************************)
MaxTicks == 1
MaxWrites == 2
MaxPipe == 1

\* Duration::from_secs(120)
timeout_duration == 120

\* Duration::as_millis of d clock periods
as_millis(d) == d * timeout_duration * 1000

Digit(d) == <<"0", "1", "2", "3", "4", "5", "6", "7", "8", "9">>[d + 1]

RECURSIVE Digits(_)
Digits(n) == IF n < 10 THEN <<Digit(n)>> ELSE Digits(n \div 10) \o <<Digit(n % 10)>>

\* Display of an i128
Display(m) == IF m < 0 THEN <<"-">> \o Digits(0 - m) ELSE Digits(m)

RECURSIVE pad_left(_, _)
\* "{:>width}"
pad_left(str, width) == IF Len(str) >= width THEN str ELSE pad_left(<<" ">> \o str, width)

\* checked_duration_since, as milliseconds with a sign
millis_since(started_at, at) ==
    IF at >= started_at THEN as_millis(at - started_at)
    ELSE 0 - as_millis(started_at - at)

\* a variant that reports the instant itself, not the offset from the start
report_millis_absolute(started_at, at) == as_millis(at)

report_millis(started_at, at) == millis_since(started_at, at)

\* format!("{:>5}| {}", millis, tl.line)
report_line(started_at, tl) ==
    pad_left(Display(report_millis(started_at, tl.at)), 5) \o <<"|", " ">> \o tl.line

RECURSIVE join_range(_, _, _)
\* the strings lo..hi of strs with "\n" between them, by halves
join_range(strs, lo, hi) ==
    IF lo = hi THEN strs[lo]
    ELSE join_range(strs, lo, (lo + hi) \div 2)
             \o <<"\n">> \o join_range(strs, (lo + hi) \div 2 + 1, hi)

\* .join("\n") of the n strings strs
join(strs, n) == IF n = 0 THEN <<>> ELSE join_range(strs, 1, n)

lines_with_offsets(started_at, lines) ==
    join([i \in 1..Len(lines) |-> report_line(started_at, lines[i])], Len(lines))

ExecuteResults(output, timed_out, exit_code) ==
    [output |-> output, timed_out |-> timed_out, exit_code |-> exit_code]

\* ExitStatus: code is None when a signal ended the process
ExitStatus(code) == [code |-> code]
success(status) == status.code = Some(0)

\* a variant that reports the code the child exited with
exit_code_of_child(status) == IF IsSome(status.code) THEN Unwrap(status.code) ELSE -1

\* a variant that reports every exit as a failure
exit_code_of_failure(status) == -1

\* "if status.success() { status.code().unwrap_or(-1) } else { -1 }"
exit_code_of(status) ==
    IF success(status) THEN (IF IsSome(status.code) THEN Unwrap(status.code) ELSE -1) ELSE -1

\* execute's arm for RunResult::TimedOut
timed_out_results(started_at, output) ==
    Ok(ExecuteResults(lines_with_offsets(started_at, output), TRUE, 137))

\* execute's arm for RunResult::Completed
completed_results(started_at, output, status) ==
    Ok(ExecuteResults(lines_with_offsets(started_at, output), FALSE, exit_code_of(status)))

\* the commands run: "any" writes at most MaxWrites lines, may close its
\* streams and may exit; "forever" writes a line to stdout again and again,
\* more than MAX_LINES of them in a period of the clock
Programs == {"any", "forever"}

ExecLines == {LineHi, LineLo, <<"X">>, LineWideAcrossCut}

BothOpen == [Stdout |-> TRUE, Stderr |-> TRUE]
NoneDone == [Stdout |-> FALSE, Stderr |-> FALSE]
Empty == [Stdout |-> <<>>, Stderr |-> <<>>]

\* the call right after Command::spawn succeeded
Spawned(prog, started_at) ==
    [pc |-> "reading", prog |-> prog, spawned |-> TRUE, started_at |-> started_at,
     child |-> "running", status |-> ExitStatus(None), killed |-> FALSE,
     open |-> BothOpen, pipe |-> Empty, done |-> NoneDone,
     written |-> <<>>, exited_at |-> None, branch |-> "none", decided |-> <<>>,
     result |-> None]

\* the call after .expect("Failed to spawn command") panicked
NotSpawned(prog, started_at) ==
    [Spawned(prog, started_at) EXCEPT !.pc = "panicked", !.spawned = FALSE, !.child = "none"]

InitExec ==
    /\ loaded = FALSE
    /\ messages = <<>>
    /\ chat_stream = None
    /\ dirty = TRUE
    /\ last = NoOp
    /\ StreamIdle
    /\ CliIdle
    /\ ExecIdle

ExecStep(e) ==
    /\ exec' = e
    /\ UNCHANGED <<now, output_buf, pushes, feed, calls>>
    /\ UNCHANGED chatVars
    /\ UNCHANGED streamVars
    /\ UNCHANGED cliVars

\* Instant::now() advances by one period; the clock is followed for MaxTicks
\* periods before the call and MaxTicks periods into it.  The endless writer
\* is a fast one: the lines of one period fill the buffer.
Tick ==
    /\ exec.pc \in {"idle", "reading", "waiting", "grace"}
    /\ IF exec.pc = "idle" THEN now < MaxTicks ELSE now - exec.started_at < MaxTicks
    /\ (exec.pc = "reading" /\ exec.prog = "forever") =>
           (Len(output_buf) = MAX_LINES /\ output_buf[1].at = now)
    /\ now' = now + 1
    /\ UNCHANGED <<output_buf, pushes, feed, exec, calls>>
    /\ UNCHANGED chatVars
    /\ UNCHANGED streamVars
    /\ UNCHANGED cliVars

\* started_at, Command::new("sh")...spawn().expect(..), and the set-up of
\* run_and_capture_with_timeout up to the first poll of the timeout
ExecStart(prog, spawn_ok) ==
    /\ exec.pc = "idle"
    /\ ExecStep(IF spawn_ok THEN Spawned(prog, now) ELSE NotSpawned(prog, now))

ChildActive == exec.pc \in {"reading", "waiting", "terminate", "grace", "kill"}

\* the child writes a line to one of its streams
ChildWrite(kind, line) ==
    /\ ChildActive
    /\ exec.child = "running"
    /\ exec.open[kind]
    /\ Len(exec.pipe[kind]) < MaxPipe
    /\ IF exec.prog = "forever"
       THEN /\ kind = "Stdout"
            /\ line = LineHi
            /\ ExecStep([exec EXCEPT !.pipe[kind] = Append(@, line)])
       ELSE /\ Len(exec.written) < MaxWrites
            /\ ExecStep([exec EXCEPT !.pipe[kind] = Append(@, line),
                                     !.written = Append(@, Delivery(kind, line))])

\* the child closes one of its streams
ChildClose(kind) ==
    /\ ChildActive
    /\ exec.prog = "any"
    /\ exec.child = "running"
    /\ exec.open[kind]
    /\ ExecStep([exec EXCEPT !.open[kind] = FALSE])

\* the child exits by itself; its streams close with it
ChildExit(code) ==
    /\ ChildActive
    /\ exec.prog = "any"
    /\ exec.child = "running"
    /\ ~exec.killed
    /\ ExecStep([exec EXCEPT !.child = "exited", !.status = ExitStatus(Some(code)),
                             !.exited_at = Some(now),
                             !.open = [Stdout |-> FALSE, Stderr |-> FALSE]])

\* a signal from elsewhere ends the child; its streams close with it
ChildSignalled ==
    /\ ChildActive
    /\ exec.prog = "any"
    /\ exec.child = "running"
    /\ ~exec.killed
    /\ ExecStep([exec EXCEPT !.child = "exited", !.status = ExitStatus(None),
                             !.exited_at = Some(now),
                             !.open = [Stdout |-> FALSE, Stderr |-> FALSE]])

\* the SIGKILL sent by start_kill ends the child
ChildKilled ==
    /\ ChildActive
    /\ exec.child = "running"
    /\ exec.killed
    /\ ExecStep([exec EXCEPT !.child = "exited", !.status = ExitStatus(None),
                             !.exited_at = Some(now),
                             !.open = [Stdout |-> FALSE, Stderr |-> FALSE]])

\* next_line() of a reader is ready: a line is in the pipe, or the pipe is
\* empty and closed
read_ready(e, kind) == ~e.done[kind] /\ (e.pipe[kind] # <<>> \/ ~e.open[kind])

\* a variant in which only an idle drain loop lets the timeout fire
drain_loop_pending_only_idle(e) == \A kind \in StreamKinds : ~read_ready(e, kind)

\* the drain loop returns Pending to the timeout that polls it: nothing is
\* ready, or a writer that never stops has kept it ready until tokio's
\* cooperative budget made it yield
drain_loop_pending(e) ==
    \/ \A kind \in StreamKinds : ~read_ready(e, kind)
    \/ e.prog = "forever"

\* drain loop: next_line() of one reader gives a line: Err for bytes that are
\* not UTF-8, else Some(l), which push_bounded stores
ReadLine(kind) ==
    /\ exec.pc = "reading"
    /\ ~exec.done[kind]
    /\ exec.pipe[kind] # <<>>
    /\ LET l == Head(exec.pipe[kind])
           e == [exec EXCEPT !.pipe[kind] = Tail(@)]
           r == push_bounded(output_buf, kind, l, now)
       IN IF ~is_utf8(l)
          THEN /\ exec' = [e EXCEPT !.pc = "returned", !.branch = "error",
                                    !.decided = output_buf,
                                    !.result = Some(Err("InvalidData"))]
               /\ UNCHANGED <<output_buf, pushes>>
          ELSE IF r.panic
          THEN /\ exec' = [e EXCEPT !.pc = "panicked"]
               /\ UNCHANGED <<output_buf, pushes>>
          ELSE /\ exec' = e
               /\ output_buf' = r.buf
               /\ pushes' = IF exec.prog = "forever" THEN pushes
                            ELSE Append(pushes, Delivery(kind, l))
    /\ UNCHANGED <<now, feed, calls>>
    /\ UNCHANGED chatVars
    /\ UNCHANGED streamVars
    /\ UNCHANGED cliVars

\* a variant in which the first stream that ends ends the loop
loop_ends_at_first_eof(e) == e.done["Stdout"] \/ e.done["Stderr"]

\* the negation of "while !stdout_done || !stderr_done"
loop_ends(e) == e.done["Stdout"] /\ e.done["Stderr"]

\* drain loop: next_line() of one reader gives None; when both streams are done
\* the loop ends and the timeout returns Ok(Ok(()))
ReadEof(kind) ==
    /\ exec.pc = "reading"
    /\ ~exec.done[kind]
    /\ exec.pipe[kind] = <<>>
    /\ ~exec.open[kind]
    /\ LET e == [exec EXCEPT !.done[kind] = TRUE]
       IN ExecStep(IF loop_ends(e)
                   THEN [e EXCEPT !.pc = "waiting", !.branch = "completed",
                                  !.decided = output_buf]
                   ELSE e)

\* a variant that returns without waiting for the child to exit
WaitChild_not_waiting ==
    /\ exec.pc = "waiting"
    /\ ExecStep([exec EXCEPT !.pc = "returned", !.child = "reaped",
                    !.result = Some(completed_results(exec.started_at, output_buf,
                                                      exec.status))])

\* Ok(Ok(())) arm: child.wait().await?, then execute's arm for Completed
WaitChild ==
    /\ exec.pc = "waiting"
    /\ exec.child = "exited"
    /\ ExecStep([exec EXCEPT !.pc = "returned", !.child = "reaped",
                    !.result = Some(completed_results(exec.started_at, output_buf,
                                                      exec.status))])

\* the timeout elapses while the drain loop is pending: Err(_) arm
Timeout ==
    /\ exec.pc = "reading"
    /\ now - exec.started_at >= 1
    /\ drain_loop_pending(exec)
    /\ ExecStep([exec EXCEPT !.pc = "terminate", !.branch = "timed_out",
                             !.decided = output_buf])

\* terminate_child_gracefully: child.start_kill()
TermStartKill ==
    /\ exec.pc = "terminate"
    /\ ExecStep([exec EXCEPT !.pc = "grace", !.killed = TRUE])

\* the call returns RunResult::TimedOut and execute builds its result
returns_timed_out(e, output) ==
    [e EXCEPT !.pc = "returned", !.child = "reaped",
              !.result = Some(timed_out_results(e.started_at, output))]

\* terminate_child_gracefully: child.wait() ends within the second
TermWaited ==
    /\ exec.pc = "grace"
    /\ exec.child = "exited"
    /\ ExecStep(returns_timed_out(exec, output_buf))

\* a variant that gives up when the second has passed
grace_expired_gives_up(e, output) ==
    [e EXCEPT !.pc = "returned", !.result = Some(timed_out_results(e.started_at, output))]

\* the Err(_) arm of terminate_child_gracefully: go on to child.kill().await
grace_expired(e, output) == [e EXCEPT !.pc = "kill"]

\* terminate_child_gracefully: the second passes and the child has not exited
TermGraceExpired ==
    /\ exec.pc = "grace"
    /\ exec.child = "running"
    /\ ExecStep(grace_expired(exec, output_buf))

\* terminate_child_gracefully: child.kill().await and child.wait().await
TermKillWaited ==
    /\ exec.pc = "kill"
    /\ exec.child = "exited"
    /\ ExecStep(returns_timed_out(exec, output_buf))

ExecProgress ==
    \/ Tick
    \/ ChildKilled
    \/ \E k \in StreamKinds : ReadLine(k)
    \/ \E k \in StreamKinds : ReadEof(k)
    \/ WaitChild
    \/ Timeout
    \/ TermStartKill
    \/ TermWaited
    \/ TermGraceExpired
    \/ TermKillWaited

NextExec ==
    \/ \E prog \in Programs, spawn_ok \in BOOLEAN : ExecStart(prog, spawn_ok)
    \/ \E k \in StreamKinds, l \in ExecLines : ChildWrite(k, l)
    \/ \E k \in StreamKinds : ChildClose(k)
    \/ \E code \in {0, 1} : ChildExit(code)
    \/ ChildSignalled
    \/ ExecProgress

SpecExec == InitExec /\ [][NextExec]_vars

\* time passes, a child that writes "hi" to stdout goes on writing, the runtime
\* polls the task of execute when a line, its timer or its child wakes it, and
\* the kernel ends a process that was sent SIGKILL
SpecExecFair ==
    /\ SpecExec
    /\ WF_vars(Tick)
    /\ WF_vars(ChildWrite("Stdout", LineHi))
    /\ WF_vars(ReadLine("Stdout"))
    /\ WF_vars(Timeout)
    /\ WF_vars(TermStartKill)
    /\ WF_vars(ChildKilled)
    /\ WF_vars(TermWaited)
    /\ WF_vars(TermKillWaited)

(***************************************************************************)
(* Properties of the conversation state machine (Spec).                    *)
(***************************************************************************)
\* the messages after position i that carry tool_call_id = id
AnswersAfter(msgs, i, id) ==
    {j \in (i + 1)..Len(msgs) : msgs[j].tool_call_id = Some(id)}

\* C1: pairing invariant.  Every tool-call id emitted by an assistant message
\* is followed by at most one later message carrying that tool_call_id.
C1_Pairing ==
    \A i \in 1..Len(messages) :
        messages[i].role = "assistant" =>
            \A c \in 1..Len(ToolCallIdsOf(messages[i])) :
                Cardinality(AnswersAfter(messages, i, ToolCallIdsOf(messages[i])[c])) <= 1

\* the longest tool_calls list of msgs
MaxCalls(msgs) ==
    IF msgs = <<>> THEN 0
    ELSE CHOOSE n \in 0..Len(AllToolCalls(msgs)) :
            /\ \A i \in 1..Len(msgs) : Len(ToolCallIdsOf(msgs[i])) <= n
            /\ \E i \in 1..Len(msgs) : Len(ToolCallIdsOf(msgs[i])) = n

\* the emissions <<i, c>> (message, call) of msgs that no message from position
\* `from(i)` on answers
OpenEmissions(msgs, from(_)) ==
    {e \in (1..Len(msgs)) \X (1..MaxCalls(msgs)) :
        /\ e[2] <= Len(ToolCallIdsOf(msgs[e[1]]))
        /\ ~\E j \in from(e[1])..Len(msgs) :
              msgs[j].tool_call_id = Some(ToolCallIdsOf(msgs[e[1]])[e[2]])}

\* the earliest emission of a non-empty set of emissions
Earliest(es) ==
    CHOOSE e \in es : \A f \in es : e[1] < f[1] \/ (e[1] = f[1] /\ e[2] <= f[2])

OldestOpenId(msgs, from(_)) ==
    LET es == OpenEmissions(msgs, from)
    IN IF es = {} THEN None
       ELSE Some(ToolCallIdsOf(msgs[Earliest(es)[1]])[Earliest(es)[2]])

C3_AppendNormal ==
    [][\A r \in Roles, c \in Contents :
          (loaded /\ last'.op = "add_normal_message" /\ AddNormalMessage(r, c)) =>
              IF messages # <<>> /\ messages[Len(messages)].role = r
              THEN /\ last'.ret # "Ok"
                   /\ messages' = messages
                   /\ dirty' = dirty
              ELSE /\ last'.ret = "Ok"
                   /\ messages' = Append(messages,
                                         [role |-> r, content |-> <<c>>, name |-> <<>>,
                                          tool_call_id |-> <<>>, tool_calls |-> <<>>])
                   /\ dirty' = TRUE]_vars

\* add_normal_message has just refused a message of the last message's role
C3_Witness ==
    /\ last.op = "add_normal_message"
    /\ last.ret = "SameRole"
    /\ messages # <<>>
    /\ messages[Len(messages)].role \in Roles

\* C4: role alternation.  No message without tool_call_id has the role of the
\* message right before it.
C4_Alternation ==
    \A i \in 2..Len(messages) :
        messages[i].tool_call_id = None => messages[i].role # messages[i - 1].role

\* C5: message shape.  tool_calls only on assistant messages; tool_call_id and
\* name only on tool messages.
C5_Shape ==
    \A i \in 1..Len(messages) :
        /\ IsSome(messages[i].tool_calls) => messages[i].role = "assistant"
        /\ IsSome(messages[i].tool_call_id) => messages[i].role = "tool"
        /\ IsSome(messages[i].name) => messages[i].role = "tool"

\* C6: on a loaded chat add_tool_message(role, name, tool_call_id, content)
\* succeeds, appends exactly the message {role, content, name, tool_call_id, no
\* tool_calls} and sets dirty, whatever the log holds.
C6_AppendToolResponse ==
    [][\A r \in ToolRoles, n \in ToolNames, id \in ToolCallIds, c \in Contents :
          (loaded /\ last'.op = "add_tool_message" /\ AddToolMessage(r, n, id, c)) =>
              /\ last'.ret = "Ok"
              /\ messages' = Append(messages,
                                    [role |-> r, content |-> <<c>>, name |-> <<n>>,
                                     tool_call_id |-> <<id>>, tool_calls |-> <<>>])
              /\ dirty' = TRUE]_vars

\* add_tool_message has just appended a response of the last message's role
\* for an id that no tool call of the log carries
C6_Witness ==
    /\ last.op = "add_tool_message"
    /\ last.ret = "Ok"
    /\ Len(messages) >= 2
    /\ IsSome(messages[Len(messages)].tool_call_id)
    /\ messages[Len(messages)].role = messages[Len(messages) - 1].role
    /\ \A k \in 1..Len(AllToolCalls(messages)) :
          AllToolCalls(messages)[k].id # messages[Len(messages)].tool_call_id[1]

\* a body that is not a streamed response and is not a chat completion document
Unparseable(body) ==
    /\ ~((\E i \in 1..Len(body.lines) : body.lines[i].has_data)
         /\ (\E i \in 1..Len(body.lines) : body.lines[i].has_done))
    /\ body.doc.defect # "none"

\* C7: call_api on a log whose last message is from the assistant fails without
\* sending a request; call_api whose response cannot be parsed fails; neither
\* appends a message.
C7_SubmitFails ==
    [][(loaded /\ messages # <<>> /\ last'.op = "call_api") =>
          /\ messages[Len(messages)].role = "assistant" =>
                /\ ~last'.sent
                /\ last'.ret # "Ok"
                /\ messages' = messages
          /\ \A b \in ServerBodies :
                (/\ messages[Len(messages)].role # "assistant"
                 /\ Unparseable(b)
                 /\ CallApi("ok", b)) =>
                    /\ last'.ret # "Ok"
                    /\ messages' = messages]_vars

\* call_api has just refused to submit a log that ends with an assistant message
C7_Witness ==
    /\ last.op = "call_api"
    /\ last.ret = "LastMessageFromAssistant"
    /\ ~last.sent
    /\ messages[Len(messages)].role = "assistant"

(***************************************************************************)
(* Properties of the streamed-response reconstruction (SpecStream).        *)
(***************************************************************************)
\* the first choice of a line that is a data frame holding JSON with a choice
HasChoice(line) == line.kind = "data" /\ line.json.valid /\ line.json.choice # <<>>

\* the text fragment a line carries ("" when it carries none)
TextFragment(line) ==
    IF /\ HasChoice(line)
       /\ line.json.choice[1].delta # <<>>
       /\ line.json.choice[1].delta[1].content # <<>>
       /\ line.json.choice[1].delta[1].content[1].str
    THEN line.json.choice[1].delta[1].content[1].s
    ELSE ""

\* the tool-call fragments a line carries
ToolFragments(line) ==
    IF /\ HasChoice(line)
       /\ line.json.choice[1].delta # <<>>
       /\ line.json.choice[1].delta[1].tool_calls # <<>>
    THEN line.json.choice[1].delta[1].tool_calls[1]
    ELSE <<>>

RECURSIVE ArgumentsOf(_)
\* the function.arguments fragments of a sequence of tool-call fragments, joined
ArgumentsOf(frags) ==
    IF frags = <<>> THEN ""
    ELSE (IF Head(frags).function # <<>> /\ Head(frags).function[1].arguments # <<>>
          THEN Head(frags).function[1].arguments[1] ELSE "")
         \o ArgumentsOf(Tail(frags))

RECURSIVE TextOf(_)
\* t1 ++ ... ++ tn, in line order
TextOf(lines) ==
    IF lines = <<>> THEN "" ELSE TextFragment(Head(lines)) \o TextOf(Tail(lines))

RECURSIVE FragmentsOf(_)
\* every tool-call fragment of the lines, in line order
FragmentsOf(lines) ==
    IF lines = <<>> THEN <<>> ELSE ToolFragments(Head(lines)) \o FragmentsOf(Tail(lines))

\* the lines whose finish_reason is "tool_calls"
FinishLines(lines) ==
    {i \in 1..Len(lines) :
        HasChoice(lines[i]) /\ lines[i].json.choice[1].finish_reason = <<"tool_calls">>}

\* C9: the message returned for a streamed body has role assistant, its content
\* is Simple(t1 ++ ... ++ tn) for the text fragments t1..tn of the data frames in
\* frame order, None when that text is empty, and its tool_calls is None when no
\* frame finished a tool call.
C9_StreamedText ==
    (sResult # None /\ sResult[1].ok) =>
        LET message == sResult[1].val[1]
            text == TextOf(sBody.lines)
        IN /\ message.role = "assistant"
           /\ message.content = IF text = "" THEN <<>>
                                ELSE <<[kind |-> "Simple", text |-> text, parts |-> <<>>]>>
           /\ FinishLines(sBody.lines) = {} => message.tool_calls = <<>>

\* two text frames and the done marker were reconstructed into "Hi there"
C9_Witness ==
    /\ sBody.lines = <<TextFrame("Hi"), TextFrame(" there"), DataDoneLine>>
    /\ sResult # None
    /\ sResult[1].ok
    /\ sResult[1].val[1].content = Some(Simple("Hi there"))
    /\ sResult[1].val[1].tool_calls = None

\* the body supplies one tool call: one id, one type, one function name, all
\* not later than the only frame whose finish_reason is "tool_calls"
OneToolCall(lines) ==
    /\ Cardinality(FinishLines(lines)) = 1
    /\ LET f == CHOOSE i \in FinishLines(lines) : TRUE
           frags == FragmentsOf(SubSeq(lines, 1, f))
       IN /\ Len(SelectSeq(frags, LAMBDA v : v.id # <<>>)) = 1
          /\ Len(SelectSeq(frags, LAMBDA v : v.tool_type # <<>>)) = 1
          /\ Len(SelectSeq(frags, LAMBDA v : v.function # <<>> /\ v.function[1].name # <<>>)) = 1

\* C10: when the frames supply one tool call's id, type and function name and
\* its arguments in fragments a1..an, and one frame has finish_reason
\* "tool_calls", the message holds exactly one ToolCall, with that id, type and
\* name and with arguments a1 ++ ... ++ an in frame order.
C10_StreamedToolCall ==
    (sResult # None /\ OneToolCall(sBody.lines)) =>
        LET f == CHOOSE i \in FinishLines(sBody.lines) : TRUE
            frags == FragmentsOf(SubSeq(sBody.lines, 1, f))
            id == SelectSeq(frags, LAMBDA v : v.id # <<>>)[1].id[1]
            tool_type == SelectSeq(frags, LAMBDA v : v.tool_type # <<>>)[1].tool_type[1]
            name == SelectSeq(frags, LAMBDA v : v.function # <<>> /\ v.function[1].name # <<>>)[1]
                        .function[1].name[1]
        IN /\ sResult[1].ok
           /\ sResult[1].val[1].tool_calls =
                 << <<[id |-> id, tool_type |-> tool_type,
                       function |-> [name |-> name, arguments |-> ArgumentsOf(frags)]]>> >>

\* a tool call whose arguments came in two fragments was reconstructed
C10_Witness ==
    /\ sBody.lines = <<ToolHeadFrame("call_1", "read"), ToolArgsFrame("{\"a\":"),
                       ToolArgsFrame("1}"), FinishFrame("tool_calls")>>
    /\ sResult # None
    /\ sResult[1].ok
    /\ sResult[1].val[1].tool_calls = Some(<<ToolCall("call_1", "function", "read", "{\"a\":1}")>>)

(***************************************************************************)
(* Properties of the command line client (SpecCli).                        *)
(***************************************************************************)
\* C8: when main has dispatched the oldest pending tool call K and goes on to
\* submit the turn, the last message of the log is the tool response with
\* tool_call_id = K and name = the call's function name, and K is no longer
\* pending.
C8_DispatchAnswered ==
    (cli.pc = "call" /\ cli.dispatched # None) =>
        /\ messages # <<>>
        /\ messages[Len(messages)].tool_call_id = <<cli.dispatched[1].id>>
        /\ messages[Len(messages)].name = <<cli.dispatched[1].name>>
        /\ get_last_pending_tool_call_id(loaded, messages) # Ok(Some(cli.dispatched[1].id))

(***************************************************************************)
(* Properties of a streamed turn that finishes several tool calls (Spec).  *)
(***************************************************************************)
\* C11: when call_api receives a streamed body in which two or more frames have
\* finish_reason "tool_calls", parse_streaming_response panics (it returns
\* neither a message nor an error value) and call_api, which had sent the
\* request, appends nothing to the log.
C11_SecondToolCallFatal ==
    [][\A b \in ServerBodies :
          (/\ loaded
           /\ messages # <<>>
           /\ messages[Len(messages)].role # "assistant"
           /\ is_streaming(b)
           /\ Cardinality(FinishLines(b.lines)) >= 2
           /\ last'.op = "call_api"
           /\ CallApi("ok", b)) =>
              /\ parse_streaming_response(b) = Err("Panic")
              /\ last'.ret = "Panic"
              /\ last'.sent
              /\ messages' = messages]_vars

\* call_api has just panicked on a submitted turn whose log ends with a user
\* message
C11_Witness ==
    /\ last.op = "call_api"
    /\ last.ret = "Panic"
    /\ last.sent
    /\ messages # <<>>
    /\ messages[Len(messages)].role = "user"

(***************************************************************************)
(* Properties of the bounded line buffer (SpecBuffer).                     *)
(***************************************************************************)
\* the first n bytes of a line (the line itself when it has no more than n)
PrefixOf(line, n) == IF Len(line) <= n THEN line ELSE SubSeq(line, 1, n)

\* the last n entries of a sequence (all of it when it has no more than n)
LastN(seq, n) == IF Len(seq) <= n THEN seq ELSE SubSeq(seq, Len(seq) - n + 1, Len(seq))

\* C17: after k pushes the buffer holds the last min(k, 128) pushed entries, in
\* arrival order (each with its stream kind and the text stored for it), and
\* never more than 128 entries; so a push at capacity has evicted exactly the
\* oldest entry.
C17_LastPushes ==
    /\ Len(output_buf) <= MAX_LINES
    /\ Len(output_buf) = Len(LastN(pushes, MAX_LINES))
    /\ \A i \in 1..Len(output_buf) :
          /\ output_buf[i].kind = LastN(pushes, MAX_LINES)[i].kind
          /\ output_buf[i].line = PrefixOf(LastN(pushes, MAX_LINES)[i].line, MAX_LINE_LEN)

\* more entries were pushed than the buffer holds, and the entries differ
C17_Witness ==
    /\ Len(pushes) > MAX_LINES
    /\ Len(output_buf) = MAX_LINES
    /\ output_buf[1].line # output_buf[2].line
    /\ pushes[1] # pushes[Len(pushes) - MAX_LINES + 1]

\* C18: every line handed to push_bounded is stored: as itself when it has at
\* most 256 bytes, as its prefix of exactly 256 bytes when it is longer, also
\* when the cut falls inside a character of several bytes.
C18_StoredPrefix ==
    /\ ~feed.panicked
    /\ \A i \in 1..Len(output_buf) :
          output_buf[i].line = PrefixOf(LastN(pushes, MAX_LINES)[i].line, MAX_LINE_LEN)

(***************************************************************************)
(* Properties of Executor::execute (SpecExec, SpecExecFair).               *)
(***************************************************************************)
\* execute has returned a value (an ExecuteResults or an error)
Returned == exec.pc = "returned"

\* the ExecuteResults execute returned
Results == exec.result[1].val[1]

\* C12: when the timeout arm was taken (the timeout elapsed before both streams
\* ended), execute returns timed_out = true and exit_code = 137, and when it
\* returns the child has exited and has been reaped.
C12_TimedOutReaped ==
    (Returned /\ exec.branch = "timed_out") =>
        /\ ~(exec.done["Stdout"] /\ exec.done["Stderr"])
        /\ exec.result[1].ok
        /\ Results.timed_out = TRUE
        /\ Results.exit_code = 137
        /\ exec.child = "reaped"

\* a call timed out on a child that had to be killed, after the second of
\* grace had passed
C12_Witness ==
    /\ Returned
    /\ exec.branch = "timed_out"
    /\ exec.status = ExitStatus(None)
    /\ exec.child = "reaped"
    /\ Results.exit_code = 137

\* the pieces of str between the bytes sep
SplitAt(str, sep) ==
    LET breaks == {0, Len(str) + 1} \cup {i \in 1..Len(str) : str[i] = sep}
        break(k) == CHOOSE b \in breaks : Cardinality({c \in breaks : c < b}) = k
    IN [k \in 1..(Cardinality(breaks) - 1) |->
           SubSeq(str, break(k - 1) + 1, break(k) - 1)]

\* the report lines of an output (a report line is never empty)
ReportLines(output) == IF output = <<>> THEN <<>> ELSE SplitAt(output, "\n")

\* the text of a report line: what follows its first "| "
ReportText(rl) ==
    LET bar == CHOOSE i \in 1..Len(rl) : rl[i] = "|" /\ \A j \in 1..(i - 1) : rl[j] # "|"
    IN SubSeq(rl, bar + 2, Len(rl))

\* the lines of one stream kind among deliveries, in order
OfKind(ds, kind) == SelectSeq(ds, LAMBDA d : d.kind = kind)

C14_AlwaysResults ==
    (exec.pc \in {"returned", "panicked"} /\ exec.spawned) =>
        /\ Returned
        /\ exec.result[1].ok

\* C15: a call on a command that writes forever and never exits returns, and
\* returns timed_out = true.
C15_EndlessWriterBounded ==
    (exec.pc = "reading" /\ exec.prog = "forever")
        ~> (Returned /\ exec.result[1].ok /\ Results.timed_out = TRUE)

\* the call on the endless writer has returned with a full buffer
C15_Witness ==
    /\ Returned
    /\ exec.prog = "forever"
    /\ Results.timed_out = TRUE
    /\ Len(output_buf) = MAX_LINES

\* the report line of a buffer entry, the offset taken from the start of the
\* command
ExpectedReportLine(started_at, tl) ==
    pad_left(Digits((tl.at - started_at) * 120 * 1000), 5) \o <<"|", " ">> \o tl.line

\* C16: in the completed and in the timed-out arm alike, the output is the
\* report, relative to the start of the command, of the buffer as it was when
\* the arm was chosen, which holds the lines pushed until then; the arm shows in
\* timed_out and exit_code only.
C16_OutputIsBuffer ==
    (Returned /\ exec.result[1].ok) =>
        /\ exec.branch \in {"completed", "timed_out"}
        /\ output_buf = exec.decided
        /\ exec.prog = "any" =>
              /\ Len(exec.decided) = Len(pushes)
              /\ \A i \in 1..Len(pushes) :
                    /\ exec.decided[i].kind = pushes[i].kind
                    /\ exec.decided[i].line = PrefixOf(pushes[i].line, MAX_LINE_LEN)
        /\ Results.output
              = join([i \in 1..Len(exec.decided) |->
                         ExpectedReportLine(exec.started_at, exec.decided[i])],
                     Len(exec.decided))
        /\ Results.timed_out = (exec.branch = "timed_out")
        /\ Results.exit_code = IF exec.branch = "timed_out" THEN 137
                               ELSE IF exec.status = ExitStatus(Some(0)) THEN 0 ELSE -1

\* a call that started one period after the clock's origin timed out and
\* returned a line it had read before and a line it had read after the
\* deadline
C16_Witness ==
    /\ Returned
    /\ exec.branch = "timed_out"
    /\ exec.started_at = 1
    /\ Len(output_buf) = 2
    /\ output_buf[1].at = 1
    /\ output_buf[2].at = 2
    /\ Len(ReportLines(Results.output)) = 2

(***************************************************************************)
(* Properties of Dispatcher::dispatch (SpecDispatch).                      *)
(***************************************************************************)
\* C19: a call of dispatch with a name that is not a known tool returns the
\* error "Unknown function: <name>", runs no tool and gives no command to a
\* shell.
C19_UnknownFunction ==
    \A i \in 1..Len(calls) :
        calls[i].function_name \notin KnownTools =>
            /\ calls[i].outcome.result = Err("Unknown function: " \o calls[i].function_name)
            /\ calls[i].outcome.ran = None
            /\ calls[i].outcome.command = None

\* dispatch was called with the name "nosuch" and the arguments of a command
C19_Witness ==
    /\ calls # <<>>
    /\ calls[1].function_name = "nosuch"
    /\ calls[1].arguments = CommandArguments
    /\ ~calls[1].outcome.result.ok

\* C20: a call of dispatch with the name of a known tool and arguments that
\* are not JSON returns an error string, and the tool's action is not
\* performed: no tool runs and no command is given to a shell.
C20_MalformedArguments ==
    \A i \in 1..Len(calls) :
        (calls[i].function_name \in KnownTools /\ ~from_str(calls[i].arguments).json) =>
            /\ ~calls[i].outcome.result.ok
            /\ calls[i].outcome.ran = None
            /\ calls[i].outcome.command = None

(***************************************************************************)
(* Properties of a session (SpecSession).                                  *)
(***************************************************************************)
\* the operations that change the conversation when they succeed (call_api
\* appends the response with add_message)
Mutating ==
    {"add_message", "add_normal_message", "add_tool_message", "set_system_prompt", "call_api"}

Succeeded(ops) == last'.op \in ops /\ last'.ret = "Ok"

\* C21: a successful load_chat leaves the context clean, and it stays clean
\* until a mutating operation succeeds; save_chat on a clean context returns Ok
\* and leaves the chat file as it is.  A successful mutating operation leaves
\* the context modified, and it stays so until a load_chat succeeds; save_chat
\* on a modified context with a chat writes the conversation to the chat file
\* when it succeeds.
C21_SaveOnlyWhenDirty ==
    [][/\ Succeeded({"load_chat"}) => ~dirty'
       /\ (~dirty /\ ~Succeeded(Mutating)) => ~dirty'
       /\ Succeeded(Mutating) => dirty'
       /\ (dirty /\ ~Succeeded({"load_chat"})) => dirty'
       /\ (last'.op = "save_chat" /\ ~dirty) => (store' = store /\ last'.ret = "Ok")
       /\ (last'.op = "save_chat" /\ dirty /\ last'.ret = "Ok") =>
              (loaded /\ store' = Some(chat_of(Ctx)))]_vars

\* save_chat has just skipped a loaded chat that differs from the chat file
C21_Witness ==
    /\ last.op = "save_chat"
    /\ last.ret = "Ok"
    /\ loaded
    /\ ~dirty
    /\ store # Some(chat_of(Ctx))

\* msgs is an initial part of later
IsPrefix(msgs, later) ==
    /\ Len(msgs) <= Len(later)
    /\ \A i \in 1..Len(msgs) : later[i] = msgs[i]

\* C24: an operation on a loaded chat, other than one that replaces the chat
\* (load_chat, new_chat), leaves every message of the log as it was, at its
\* position; the log changes at its end only.
C24_AppendOnly ==
    [][(loaded /\ last'.op \notin {"load_chat", "new_chat"}) =>
          IsPrefix(messages, messages')]_vars

\* C22: a run of main in which the appending of the message failed (with the
\* role-alternation violation, for one) sends no request to the remote endpoint
\* and does not end with exit status 0.
C22_AddErrorStopsRun ==
    cli.add_tool_res # "Ok" =>
        /\ last.op = "call_api" => ~last.sent
        /\ cli.exit # "ok"

(***************************************************************************)
(* Properties of the written and re-read response (SpecRoundTrip).         *)
(***************************************************************************)
\* C23: when a Message with tool calls was written into a response object and
\* parse_response has read the text back, the result is a Message with as many
\* tool calls, each with the id, the function name and the arguments string of
\* the one written at its position.
C23_RoundTrip ==
    (last.op = "parse_response" /\ IsSome(sResult)) =>
        LET written == Unwrap(Unwrap(last.val).tool_calls)
            res == Unwrap(sResult)
        IN /\ res.ok
           /\ IsSome(Unwrap(res.val).tool_calls)
           /\ LET read == Unwrap(Unwrap(res.val).tool_calls)
              IN /\ Len(read) = Len(written)
                 /\ \A i \in 1..Len(written) :
                        /\ read[i].id = written[i].id
                        /\ read[i].function.name = written[i].function.name
                        /\ read[i].function.arguments = written[i].function.arguments

\* a message whose arguments hold a quote and a backslash has been read back
C23_Witness ==
    /\ last.op = "parse_response"
    /\ IsSome(sResult)
    /\ Unwrap(sResult).ok
    /\ Unwrap(Unwrap(last.val).tool_calls)[1].function.arguments = <<"\"", "\\">>
    /\ Unwrap(sBody.text).choices[1].message.tool_calls[1][1].function.arguments.s
           = <<"\\", "\"", "\\", "\\">>

(***************************************************************************)
(* Properties of get_tool_call (SpecQuery).                                *)
(***************************************************************************)
\* the tool calls of message i, none when the message has no tool_calls
CallsOf(i) == IF IsSome(messages[i].tool_calls) THEN Unwrap(messages[i].tool_calls) ELSE <<>>

\* call j of message i carries tool_call_id and no call before it in the log does
FirstWithId(i, j, tool_call_id) ==
    /\ CallsOf(i)[j].id = tool_call_id
    /\ \A k \in 1..(j - 1) : CallsOf(i)[k].id # tool_call_id
    /\ \A h \in 1..(i - 1) : \A k \in 1..Len(CallsOf(h)) : CallsOf(h)[k].id # tool_call_id

\* C25: on a loaded chat get_tool_call(id) returns the first tool call of the
\* log, in message order and then in call order, that carries id, and that call
\* has the id asked for; when no message carries a tool call with id it fails
\* with LastToolCallIdNotFound.
C25_LookupToolCall ==
    [][\A tool_call_id \in ToolCallIds :
          (loaded /\ last'.op = "get_tool_call" /\ GetToolCall(tool_call_id)) =>
              IF \E i \in 1..Len(messages) : \E j \in 1..Len(CallsOf(i)) :
                     CallsOf(i)[j].id = tool_call_id
              THEN /\ last'.ret = "Ok"
                   /\ Unwrap(last'.val).id = tool_call_id
                   /\ \E i \in 1..Len(messages) : \E j \in 1..Len(CallsOf(i)) :
                          /\ FirstWithId(i, j, tool_call_id)
                          /\ Unwrap(last'.val) = CallsOf(i)[j]
              ELSE last'.ret = "LastToolCallIdNotFound"]_vars

\* get_tool_call has returned the first of two different calls with one id
C25_Witness ==
    /\ loaded
    /\ last.op = "get_tool_call"
    /\ last.ret = "Ok"
    /\ \E i \in 1..Len(messages) : \E j \in 1..Len(CallsOf(i)) :
           /\ FirstWithId(i, j, Unwrap(last.val).id)
           /\ Unwrap(last.val) = CallsOf(i)[j]
           /\ \E h \in (i + 1)..Len(messages) : \E k \in 1..Len(CallsOf(h)) :
                  /\ CallsOf(h)[k].id = CallsOf(i)[j].id
                  /\ CallsOf(h)[k] # CallsOf(i)[j]

(***************************************************************************)
(* Properties of the end of a call of execute (SpecExec).                  *)
(***************************************************************************)
\* C26: while the executor waits, for up to the second of grace, for the child
\* to exit after the termination signal, no forced kill (SIGKILL) has been sent
\* to the child: the forced kill comes only when the second has passed, so a
\* child that exits within the second was never force-killed.
C26_GracefulFirst ==
    exec.pc = "grace" => ~exec.killed

\* C27: when execute returns, on the completed, the timed-out and the
\* read-error branch alike, the child has exited and has been reaped.
C27_ReapedOnEveryBranch ==
    Returned => exec.child = "reaped"

C29_BothEof ==
    [][exec.pc # "idle" =>
       /\ exec'.branch = "completed" => (exec'.done["Stdout"] /\ exec'.done["Stderr"])
       /\ \A k \in StreamKinds :
             /\ (/\ exec.pc = "reading"
                 /\ ~exec.done[k]
                 /\ exec'.done[k]
                 /\ \E o \in StreamKinds : ~exec'.done[o]) =>
                    (exec'.pc = "reading" /\ exec'.branch = "none")
             /\ exec.done[k] => (exec'.done[k] /\ exec'.pipe[k] = exec.pipe[k])]_vars

\* stdout has signalled end-of-stream and the loop is still reading, with a
\* line of stderr to take
C29_Witness ==
    /\ exec.pc = "reading"
    /\ exec.done["Stdout"]
    /\ ~exec.done["Stderr"]
    /\ exec.pipe["Stderr"] # <<>>

\* C30: when the call completed (both streams ended before the timeout),
\* execute returns timed_out = false with exit_code 0 when the child exited
\* with code 0 and exit_code -1 when it exited with another code or was ended
\* by a signal.
C30_ExitCode ==
    (Returned /\ exec.branch = "completed") =>
        /\ exec.result[1].ok
        /\ Results.timed_out = FALSE
        /\ Results.exit_code = IF exec.status = ExitStatus(Some(0)) THEN 0 ELSE -1

\* a child that exited with code 1 was reported with exit_code -1
C30_Witness ==
    /\ Returned
    /\ exec.branch = "completed"
    /\ exec.status = ExitStatus(Some(1))
    /\ Results.exit_code = -1

(***************************************************************************)
(* Properties of the lines of a streamed body (SpecStream).                *)
(***************************************************************************)
\* the line (as it is after trim()) starts with "data: ", what follows parses
\* as JSON and has a choices[0]
CarriesPayload(line) == line.kind = "data" /\ line.json.valid /\ IsSome(line.json.choice)

\* C31: an iteration of the loop over a line that is blank, is the terminator,
\* does not start with "data: ", or is a data line whose rest is not JSON or
\* has no choices[0], leaves every accumulator (the text, the finished tool
\* calls and the tool call in progress) as it was, and the loop goes on without
\* an error; so only a data line with JSON and a choices[0] changes them.
C31_IgnoredLines ==
    [][(sPos' = sPos + 1 /\ ~CarriesPayload(sBody.lines[sPos + 1])) =>
          (sAcc' = sAcc /\ sResult' = None)]_vars

\* a line without payload was passed over with text and a tool call in progress
C31_Witness ==
    /\ sPos >= 3
    /\ sBody.lines[sPos] \in {DoneLine, DataGarbageLine, DataNoChoiceLine,
                              OtherLine(FALSE, FALSE)}
    /\ sAcc.full_response = "Hi"
    /\ sAcc.tool_call_id = "call_1"
    /\ sResult = None

(***************************************************************************)
(* Properties of call_api's choice of parser (SpecSubmit).                 *)
(***************************************************************************)
\* the text of the body has a "data: " and has a "[DONE]"
HasBoth(body) ==
    /\ \E i \in 1..Len(body.lines) : body.lines[i].has_data
    /\ \E i \in 1..Len(body.lines) : body.lines[i].has_done

\* C32: when call_api has received a body, it appends what
\* parse_streaming_response makes of it when the body holds both "data: " and
\* "[DONE]", and otherwise (a stream of data frames without the terminator
\* included) it appends what parse_response finds at choices[0].message, or
\* fails when parse_response fails.
C32_ParserChoice ==
    [][\A b \in SubmitBodies :
          (/\ last'.op = "call_api"
           /\ last'.sent
           /\ CallApi("ok", b)) =>
              LET res == IF HasBoth(b) THEN parse_streaming_response(b)
                         ELSE parse_response(b)
              IN IF res.ok
                 THEN last'.ret = "Ok" /\ messages' = Append(messages, Unwrap(res.val))
                 ELSE last'.ret = res.err /\ messages' = messages]_vars

\* frames without the terminator went to parse_response and were refused
C32_Witness ==
    /\ last.op = "call_api"
    /\ last.sent
    /\ last.ret = "Json"
    /\ parse_streaming_response(SseNoTerminator).ok
    /\ ~HasBoth(SseNoTerminator)
    /\ messages # <<>>

(***************************************************************************)
(* Properties of the wait for the child (SpecExec).                        *)
(***************************************************************************)
\* C33: once both streams have ended before the timeout, execute waits for the
\* child however much time passes: the termination protocol is never started
\* (no kill is sent), the call leaves the wait only when the child has exited
\* by itself, and it then returns timed_out = false.
C33_WaitUnbounded ==
    [][exec.pc = "waiting" =>
          /\ exec.branch = "completed"
          /\ ~exec'.killed
          /\ exec'.pc \in {"waiting", "returned"}
          /\ exec'.pc = "returned" =>
                /\ exec.child = "exited"
                /\ exec'.child = "reaped"
                /\ exec'.result[1].ok
                /\ exec'.result[1].val[1].timed_out = FALSE]_vars

\* both streams have ended, the child is still running, the time of the
\* timeout has passed and execute is waiting for the child
C33_Witness ==
    /\ exec.pc = "waiting"
    /\ exec.child = "running"
    /\ exec.done["Stdout"]
    /\ exec.done["Stderr"]
    /\ now - exec.started_at >= 1
    /\ ~exec.killed

(***************************************************************************)
(* Properties that relate the queries (SpecQuery).                         *)
(***************************************************************************)
\* C34: when get_last_pending_tool_call_id has returned Some(K), get_tool_call(K)
\* on the same conversation succeeds and returns a tool call whose id is K.
C34_PendingResolves ==
    (/\ last.op = "get_last_pending_tool_call_id"
     /\ last.ret = "Ok"
     /\ IsSome(Unwrap(last.val))) =>
        LET K == Unwrap(Unwrap(last.val))
            call == get_tool_call(loaded, messages, K)
        IN /\ call.ok
           /\ Unwrap(call.val).id = K
           /\ \E i \in 1..Len(messages) : \E j \in 1..Len(CallsOf(i)) :
                  CallsOf(i)[j] = Unwrap(call.val)

\* the query has returned call_2 on a log in which call_1 is answered
C34_Witness ==
    /\ last.op = "get_last_pending_tool_call_id"
    /\ last.val = Some(Some("call_2"))
    /\ Len(messages) = 2
    /\ messages[1].tool_calls = Some(<<TC1, TC2>>)
    /\ messages[2].tool_call_id = Some("call_1")

(***************************************************************************)
(* Properties of answering the pending tool calls (Spec).                  *)
(***************************************************************************)
\* the pending calls of msgs, as <<message, call>> positions: the calls that no
\* message at the same or a later position answers
PendingEmissions(msgs) == OpenEmissions(msgs, LAMBDA i : i)

IdOfEmission(msgs, e) == ToolCallIdsOf(msgs[e[1]])[e[2]]

\* the pending calls of msgs have pairwise distinct ids
DistinctPending(msgs) ==
    \A e, f \in PendingEmissions(msgs) :
        e # f => IdOfEmission(msgs, e) # IdOfEmission(msgs, f)

C36_EmittedByFinish ==
    (sResult # None /\ Cardinality(FinishLines(sBody.lines)) <= 1) =>
        /\ sResult[1].ok
        /\ LET message == sResult[1].val[1]
               text == TextOf(sBody.lines)
           IN IF FinishLines(sBody.lines) = {}
              THEN /\ message.tool_calls = None
                   /\ message.content = IF text = "" THEN None ELSE Some(Simple(text))
              ELSE /\ IsSome(message.tool_calls)
                   /\ Len(Unwrap(message.tool_calls)) = 1

\* the fragments of a tool call were received, the stream finished with "stop",
\* and the message returned has no tool_calls
C36_Witness ==
    /\ sBody.lines = <<ToolHeadFrame("call_1", "read"), ToolArgsFrame("1}"),
                       FinishFrame("stop"), DataDoneLine>>
    /\ sAcc.tool_call_id = "call_1"
    /\ sAcc.tool_call_function_arguments = "1}"
    /\ sResult # None
    /\ sResult[1].ok
    /\ sResult[1].val[1].tool_calls = None

(***************************************************************************)
(* Properties of consecutive calls of call_api (SpecSubmit).               *)
(***************************************************************************)
\* C37: a call_api that succeeds on a body read as a streamed response leaves
\* a log whose last message has role assistant; and a call_api that follows a
\* successful one with nothing appended in between, on a log that ends with an
\* assistant message, fails with LastMessageFromAssistant, sends no request and
\* leaves the log as it was.
C37_SecondSubmitRefused ==
    [][last'.op = "call_api" =>
          /\ \A b \in SubmitBodies :
                (last'.ret = "Ok" /\ HasBoth(b) /\ CallApi("ok", b)) =>
                    messages'[Len(messages')].role = "assistant"
          /\ (/\ last.op = "call_api"
              /\ last.ret = "Ok"
              /\ messages[Len(messages)].role = "assistant") =>
                 /\ last'.ret = "LastMessageFromAssistant"
                 /\ ~last'.sent
                 /\ messages' = messages]_vars

\* the streamed "Hi" was appended by a call_api and the next call_api was refused
C37_Witness ==
    /\ last.op = "call_api"
    /\ last.ret = "LastMessageFromAssistant"
    /\ ~last.sent
    /\ Len(messages) >= 2
    /\ messages[Len(messages)] = Message("assistant", Some(Simple("Hi")), None, None, None)
    /\ messages[Len(messages) - 1].role # "assistant"

(***************************************************************************)
(* Properties of what the operations leave alone (SpecFrame).              *)
(***************************************************************************)
\* C38: an add_normal_message that fails, and each of the queries
\* get_last_pending_tool_call_id, get_tool_call and get_last_message, leaves
\* the chat, its messages, its stream flag and the dirty flag as they were;
\* add_normal_message fails on a loaded chat when the last message has the
\* role given.
C38_FailureAndQueriesFrame ==
    [][/\ (last'.op = "add_normal_message" /\ last'.ret # "Ok") =>
              UNCHANGED <<loaded, messages, chat_stream, dirty>>
       /\ \A r \in Roles, c \in Contents :
              (/\ last'.op = "add_normal_message"
               /\ loaded
               /\ messages # <<>>
               /\ messages[Len(messages)].role = r
               /\ AddNormalMessage(r, c)) => last'.ret = "SameRole"
       /\ last'.op \in {"get_last_pending_tool_call_id", "get_tool_call",
                        "get_last_message"} =>
              UNCHANGED <<loaded, messages, chat_stream, dirty>>]_vars

\* add_normal_message has refused a message of the role of the last message of
\* a chat that was not modified, and the chat is still not modified
C38_Witness ==
    /\ last.op = "add_normal_message"
    /\ last.ret = "SameRole"
    /\ loaded
    /\ ~dirty
    /\ Len(messages) = MaxLog

(***************************************************************************)
(* Properties of the saving of the conversation by main (SpecCli).         *)
(***************************************************************************)
\* main has got past the call of the endpoint: call_api returned Ok, or
\* --no-network was given
PastSubmit == last.op = "no_network" \/ (last.op = "call_api" /\ last.ret = "Ok")

\* C39: in a run of main the chat file changes only in save_chat, and
\* save_chat is reached only after call_api has returned Ok or with
\* --no-network; when call_api fails the run ends there with an error, and the
\* chat file is as it was.
C39_SavedOnlyAfterSubmit ==
    [][/\ store' # store => (cli.pc = "save" /\ last'.op = "save_chat" /\ PastSubmit)
       /\ cli.pc = "save" => PastSubmit
       /\ (cli.pc = "call" /\ last'.op = "call_api" /\ last'.ret # "Ok") =>
              /\ cli'.pc = "idle"
              /\ cli'.exit \in {"error", "panic"}
              /\ store' = store]_vars

\* a run that loaded the chat file and appended a message ended when call_api
\* failed, and the chat file does not have the message
C39_Witness ==
    /\ cli.pc = "idle"
    /\ cli.exit = "error"
    /\ last.op = "call_api"
    /\ last.ret # "Ok"
    /\ loaded
    /\ dirty
    /\ IsSome(store)
    /\ Len(messages) = Len(Unwrap(store).messages) + 1
    /\ SubSeq(messages, 1, Len(messages) - 1) = Unwrap(store).messages

(***************************************************************************)
(* Properties of the read tool (SpecRead).                                 *)
(***************************************************************************)
\* the lines of file from line 1 on, at most READ_INDEX_CAP of them
FirstLines(file) == [i \in 1..min(Len(file), READ_INDEX_CAP) |-> <<file[i]>>]

\* C40: a call of read_file on a readable file with no offset and no limit
\* returns the file's lines from line 1 up to at most 1000 lines; the sum
\* offset + limit the end index is computed from does not exceed the largest
\* machine integer; and a call with an offset beyond the last line returns an
\* empty result or an error value, never a panic.
C40_ReadDefaults ==
    (last.op = "read_file" /\ IsSome(sBody.content)) =>
        LET file == Unwrap(sBody.content)
            start == unwrap_or(sBody.args.offset, 1)
            limit == unwrap_or(sBody.args.limit, usize_MAX)
            show == unwrap_or(sBody.args.show_line_numbers, FALSE)
        IN  /\ (sBody.args.offset = None /\ sBody.args.limit = None /\ ~show) =>
                   /\ last.ret = "Ok"
                   /\ Unwrap(sResult).val = Some(FirstLines(file))
            /\ (sBody.args.offset = None /\ sBody.args.limit = None) =>
                   start + limit <= usize_MAX
            /\ start > Len(file) =>
                   \/ last.ret = "Err"
                   \/ last.ret = "Ok" /\ Unwrap(sResult).val = Some(<<>>)

====
